---- MODULE Spec2Model ----
(***************************************************************************)
(* The chat pipeline of server.js: POST /api/chat runs schema              *)
(* introspection, SQL synthesis (with clean-up of the model's raw text),   *)
(* SQL execution and narration, and shapes one HTTP reply.                 *)
(* Spec runs one turn after the other; SpecConc interleaves several        *)
(* invocations of the handler at their awaits.                             *)
(*                                                                         *)
(* Texts that the code inspects character by character (the question, the  *)
(* model's raw SQL text, the cleaned query) are sequences of characters,   *)
(* one string per character.  Texts the code only passes along (error      *)
(* messages, narration) are opaque strings.  JavaScript values that may be *)
(* undefined or null are tagged records.                                   *)
(***************************************************************************)
EXTENDS Integers, Sequences, FiniteSets, TLC

VARIABLES
    pc,          \* position of the /api/chat handler
    message,     \* req.body.message of the turn in progress
    catalog,     \* rows of information_schema.columns (database state)
    dbUp,        \* whether the catalog query succeeds
    schema,      \* const schema of the handler
    modelOut,    \* what the generative model answered to the synthesis prompt
    sqlQuery,    \* const sqlQuery of the handler
    sqlResult,   \* const sqlResult of the handler
    prompt,      \* the prompt built by generateNaturalResponse
    narration,   \* what the generative model did with the narration prompt
    thrown,      \* the exception that reached the handler's catch block
    calls,       \* calls made in this turn, in order
    reply,       \* the HTTP reply of the turn
    prevSchema,  \* history: the schema the turn before this one read
    sent,        \* number of replies the turn in progress has sent
    turns,       \* concurrent turns: position, inputs received, reply
    frames,      \* concurrent turns: the const values of each invocation
    tablesLog,   \* GET /api/tables: the requests answered so far
    uiMessages,  \* ChatBot: the messages state, each with the send it belongs to
    uiLoading,   \* ChatBot: the isLoading state
    uiSeen,      \* ChatBot: isLoading as the last committed render captured it
    uiSends,     \* ChatBot: the accepted calls of sendMessage
    uiLast,      \* ChatBot: the last call of sendMessage and what it met
    shapeIn,     \* ChatBot: an answer of the API
    shapeOut,    \* ChatBot: the messages that answer adds to the window
    pgTables,    \* ChatBot: window.tableData and the elements of each table
    px,          \* ExcelProxyService: one call of fetchExcelDataWithProxy
    bl           \* ExcelBlobService: one call of fetchExcelData

vars == <<pc, message, catalog, dbUp, schema, modelOut, sqlQuery, sqlResult,
          prompt, narration, thrown, calls, reply, prevSchema, sent, turns,
          frames, tablesLog, uiMessages, uiLoading, uiSeen, uiSends, uiLast,
          shapeIn, shapeOut, pgTables, px, bl>>

\* The values of one turn at a time.
turnVars == <<pc, message, schema, modelOut, sqlQuery, sqlResult, prompt,
              narration, thrown, calls, reply, prevSchema, sent>>

\* The values of the concurrent turns.
concVars == <<turns, frames>>

\* One answer of the API and its bot message.
shapeVars == <<shapeIn, shapeOut>>

\* The values of the chat window.
frontVars == <<uiMessages, uiLoading, uiSeen, uiSends, uiLast>>

\* The values outside POST /api/chat.
otherVars == <<tablesLog, frontVars, shapeVars, pgTables, px, bl>>

\* The values of the chat window and its tables.
windowVars == <<frontVars, shapeVars, pgTables>>

\* The values of the server.
serverVars == <<catalog, dbUp, turnVars, concVars, tablesLog>>

----------------------------------------------------------------------------
(* Bounds *)

MaxRows == 12

\* Number of chat turns in flight at the same time.
MaxTurns == 2

\* Number of GET /api/tables requests that are followed.
MaxRequests == 3

\* Number of accepted sends of the chat window that are followed.
MaxSends == 2

\* Number of generated tables, and the most rows a table has.
MaxTables == 2
MaxTableRows == 12

----------------------------------------------------------------------------
(* JavaScript values *)

Undefined == [t |-> "undefined"]
Null == [t |-> "null"]
Arr(s) == [t |-> "array", v |-> s]
Num(n) == [t |-> "number", v |-> n]
Str(s) == [t |-> "string", v |-> s]
Bool(b) == [t |-> "boolean", v |-> b]

\* The value of o.f, undefined when the object has no such property.
Get(o, f) == IF f \in DOMAIN o THEN o[f] ELSE Undefined

\* JavaScript truthiness of a tagged value; an array, even empty, is truthy.
Truthy(x) ==
    CASE x.t = "undefined" -> FALSE
      [] x.t = "null" -> FALSE
      [] x.t = "number" -> x.v # 0
      [] x.t = "string" -> x.v # <<>>
      [] x.t = "boolean" -> x.v
      [] OTHER -> TRUE

----------------------------------------------------------------------------
(* Character-level text *)

Whitespace == {" ", "\n", "\t"}

IsWs(c) == c \in Whitespace

Lower(c) ==
    CASE c = "S" -> "s"
      [] c = "Q" -> "q"
      [] c = "L" -> "l"
      [] c = "U" -> "u"
      [] c = "E" -> "e"
      [] c = "R" -> "r"
      [] c = "Y" -> "y"
      [] OTHER -> c

Drop(s, n) == SubSeq(s, n + 1, Len(s))

\* Does s start with p, ignoring case?
StartsWithCI(s, p) ==
    /\ Len(s) >= Len(p)
    /\ \A i \in 1..Len(p) : Lower(s[i]) = Lower(p[i])

EndsWith(s, p) ==
    /\ Len(s) >= Len(p)
    /\ SubSeq(s, Len(s) - Len(p) + 1, Len(s)) = p

RECURSIVE TrimStart(_)
TrimStart(s) ==
    IF s # <<>> /\ IsWs(Head(s)) THEN TrimStart(Tail(s)) ELSE s

RECURSIVE TrimEnd(_)
TrimEnd(s) ==
    IF s # <<>> /\ IsWs(s[Len(s)]) THEN TrimEnd(SubSeq(s, 1, Len(s) - 1)) ELSE s

\* String.prototype.trim
Trim(s) == TrimEnd(TrimStart(s))

\* The backtick character (U+0060), written as a named token.
Tick == "tick"

Fence == <<Tick, Tick, Tick>>
FenceSql == Fence \o <<"s", "q", "l">>
Label == <<"S", "Q", "L", " ", "Q", "u", "e", "r", "y", ":">>

\* Does the text contain a triple backtick anywhere?
HasFence(s) ==
    \E i \in 1..(Len(s) - 2) : SubSeq(s, i, i + 2) = Fence

----------------------------------------------------------------------------
(* Query Synthesizer: clean-up of the model's raw text *)

\* .replace(/^```sql\s*/i, '')
StripFenceOpen(s) ==
    IF StartsWithCI(s, FenceSql) THEN TrimStart(Drop(s, Len(FenceSql))) ELSE s

\* .replace(/\s*```$/i, '')
StripFenceClose(s) ==
    IF EndsWith(s, Fence) THEN TrimEnd(SubSeq(s, 1, Len(s) - Len(Fence))) ELSE s

\* .replace(/^SQL Query:\s*/i, '')
StripLabel(s) ==
    IF StartsWithCI(s, Label) THEN TrimStart(Drop(s, Len(Label))) ELSE s

\* result.response.text().trim() followed by the three replacements and trim()
CleanQuery(raw) ==
    Trim(StripLabel(StripFenceClose(StripFenceOpen(Trim(raw)))))

----------------------------------------------------------------------------
(* Completions of a stage: it returns a value or throws an error *)

Return(v) == [kind |-> "return", value |-> v]
Throw(e) == [kind |-> "throw", error |-> e]
Error(m) == [message |-> m]

----------------------------------------------------------------------------
(* Schema Introspector *)

Col(tbl, col, type) ==
    [table_name |-> tbl, column_name |-> col, data_type |-> type,
     is_nullable |-> "YES", column_default |-> Null]

\* Contents of information_schema.columns the database may hold, each in the
\* order of ORDER BY table_name, ordinal_position.
CatalogEmployees ==
    << Col("employees", "id", "integer"), Col("employees", "name", "text"),
       Col("employees", "status", "text") >>
CatalogBoth == CatalogEmployees \o << Col("projects", "id", "integer") >>
Catalogs == { <<>>, CatalogEmployees, CatalogBoth }

Descriptor(row) ==
    [column |-> row.column_name, type |-> row.data_type,
     nullable |-> (row.is_nullable = "YES"), default |-> row.column_default]

\* Variant: a column is put in front of the columns the table already has.
AddRowPrepend(sch, row) ==
    IF \E i \in 1..Len(sch) : sch[i].table = row.table_name
    THEN [i \in 1..Len(sch) |->
            IF sch[i].table = row.table_name
            THEN [sch[i] EXCEPT !.columns = <<Descriptor(row)>> \o @]
            ELSE sch[i]]
    ELSE Append(sch, [table |-> row.table_name, columns |-> <<Descriptor(row)>>])

\* One step of result.rows.forEach: the schema object is a sequence of
\* entries in the order the keys were inserted.
AddRow(sch, row) ==
    IF \E i \in 1..Len(sch) : sch[i].table = row.table_name
    THEN [i \in 1..Len(sch) |->
            IF sch[i].table = row.table_name
            THEN [sch[i] EXCEPT !.columns = Append(@, Descriptor(row))]
            ELSE sch[i]]
    ELSE Append(sch, [table |-> row.table_name, columns |-> <<Descriptor(row)>>])

RECURSIVE GroupRows(_, _)
GroupRows(sch, rows) ==
    IF rows = <<>> THEN sch ELSE GroupRows(AddRow(sch, Head(rows)), Tail(rows))

\* Variant: a failed catalog query goes on to the caller.
getDatabaseSchemaRethrow(dbResp) ==
    IF dbResp.ok THEN Return(GroupRows(<<>>, dbResp.rows)) ELSE Throw(dbResp.error)

\* dbResp is the outcome of pool.query on the catalog.
getDatabaseSchema(dbResp) ==
    IF dbResp.ok THEN Return(GroupRows(<<>>, dbResp.rows)) ELSE Return(<<>>)

\* Variant: the empty-schema test never succeeds.
SchemaIsEmptyNever(sch) == FALSE

\* Object.keys(schema).length === 0
SchemaIsEmpty(sch) == Len(sch) = 0

----------------------------------------------------------------------------
(* Query Synthesizer *)

SynthFailureMessage == "Failed to generate SQL query"

\* Variant: the catch block swallows the error and returns an empty query.
SynthCatchSwallow(error) == Return(Str(<<>>))

\* The catch block of generateSQLQuery.
SynthCatch(error) == Throw(Error(SynthFailureMessage))

\* modelResp is the outcome of model.generateContent(prompt) and text().
generateSQLQuery(modelResp) ==
    IF modelResp.ok THEN Return(Str(CleanQuery(modelResp.text)))
    ELSE SynthCatch(modelResp.error)

----------------------------------------------------------------------------
(* Query Executor *)

\* result.fields?.map(field => field.name) || []
FieldNames(result) ==
    LET f == Get(result, "fields") IN
    IF f.t = "undefined" THEN Arr(<<>>)
    ELSE Arr([i \in 1..Len(f.v) |-> f.v[i].name])

ExecSuccess(result) ==
    [success |-> TRUE, data |-> Get(result, "rows"),
     rowCount |-> Get(result, "rowCount"), fields |-> FieldNames(result)]

\* Variant: the executor adds a row limit to the statement.
StatementSentWithLimit(query) ==
    Str(query.v \o <<" ", "L", "I", "M", "I", "T", " ", "5", "0">>)

\* The text handed to pool.query.
StatementSent(query) == query

\* Variant: the catch block lets the database error go on to the caller.
ExecCatchRethrow(error, query) == Throw(error)

\* The catch block of executeSQLQuery.
ExecCatch(error, query) ==
    Return([success |-> FALSE, error |-> error.message, sqlQuery |-> query])

\* dbResp is the outcome of pool.query(sqlQuery).
executeSQLQuery(query, dbResp) ==
    IF dbResp.ok THEN Return(ExecSuccess(dbResp.result))
    ELSE ExecCatch(dbResp.error, query)

----------------------------------------------------------------------------
(* Response Narrator *)

NarratorPreviewLimit == 5

NarratorFallback ==
    "I found some data but had trouble explaining it. Please try rephrasing your question."

\* Reading .length of undefined.
LengthOfUndefinedMessage == "Cannot read properties of undefined (reading 'length')"

FirstRows(rows, n) == SubSeq(rows, 1, IF Len(rows) < n THEN Len(rows) ELSE n)

ResultPrompt(query, res, question) ==
    [kind |-> "result", question |-> question, sql |-> query,
     rowCount |-> res.rowCount,
     preview |-> FirstRows(res.data.v, NarratorPreviewLimit)]

\* sqlResult.error || 'No results found'
MissPrompt(query, res, question) ==
    [kind |-> "miss", question |-> question, sql |-> query,
     error |-> IF "error" \in DOMAIN res /\ res.error # ""
               THEN res.error ELSE "No results found"]

\* Variant: the result prompt is built for every success, with or without rows.
NarratorPromptBySuccess(query, res, question) ==
    IF res.success
    THEN IF res.data.t \in {"undefined", "null"}
         THEN Throw(Error(LengthOfUndefinedMessage))
         ELSE Return(ResultPrompt(query, res, question))
    ELSE Return(MissPrompt(query, res, question))

\* The if/else that builds the prompt; it runs outside the try block.
NarratorPrompt(query, res, question) ==
    IF res.success
    THEN IF res.data.t \in {"undefined", "null"}
         THEN Throw(Error(LengthOfUndefinedMessage))
         ELSE IF Len(res.data.v) > 0
              THEN Return(ResultPrompt(query, res, question))
              ELSE Return(MissPrompt(query, res, question))
    ELSE Return(MissPrompt(query, res, question))

\* Variant: the catch block lets the model error go on to the caller.
NarratorCatchRethrow(error) == Throw(error)

\* The catch block of generateNaturalResponse.
NarratorCatch(error) == Return(NarratorFallback)

\* modelResp is the outcome of model.generateContent(prompt) and text().
NarratorResult(modelResp) ==
    IF modelResp.ok THEN Return(modelResp.text) ELSE NarratorCatch(modelResp.error)

----------------------------------------------------------------------------
(* Pipeline Orchestrator: the replies *)

PreviewLimit == 10

NoReply == [status |-> 0]

\* if (!message)
MessageMissing(m) == ~Truthy(m)

ValidationReply == [status |-> 400, body |-> [error |-> "Message is required"]]

DbUnavailableNarrative ==
    "I'm having trouble connecting to the database right now. Please try again later."

DbUnavailableReply ==
    [status |-> 200, body |-> [response |-> DbUnavailableNarrative, type |-> "error"]]

ApologyNarrative ==
    "I encountered an error while processing your request. Please try again or rephrase your question."

\* Variant: the catch block words its narrative with the message of the error.
CatchAllReplyRawNarrative(error) ==
    [status |-> 500,
     body |-> [response |-> error.message, type |-> "error",
               error |-> error.message]]

\* Variant: the catch block answers without the message of the error.
CatchAllReplyNoMessage(error) ==
    [status |-> 500, body |-> [response |-> ApologyNarrative, type |-> "error"]]

\* The catch block of the handler.
CatchAllReply(error) ==
    [status |-> 500,
     body |-> [response |-> ApologyNarrative, type |-> "error",
               error |-> error.message]]

\* Variant: the type follows the presence of rows instead of the success flag.
ReplyTypeByRows(res) ==
    IF res.success /\ Get(res, "data").t = "array" /\ Len(res.data.v) > 0
    THEN "success" ELSE "error"

\* sqlResult.success ? 'success' : 'error'
ReplyType(res) == IF res.success THEN "success" ELSE "error"

\* Variant: the row count is passed on without the default.
ResultCountRaw(res) == Get(res, "rowCount")

\* sqlResult.rowCount || 0
ResultCount(res) ==
    LET c == Get(res, "rowCount") IN IF Truthy(c) THEN c ELSE Num(0)

\* sqlResult.success && sqlResult.data && sqlResult.data.length > 0
HasData(res) ==
    IF ~res.success THEN Bool(FALSE)
    ELSE LET d == Get(res, "data") IN
         IF ~Truthy(d) THEN d ELSE Bool(Len(d.v) > 0)

\* sqlResult.success ? sqlResult.data?.slice(0, 10) : null
Preview(res) ==
    IF res.success
    THEN LET d == Get(res, "data") IN
         IF d.t \in {"undefined", "null"} THEN Undefined
         ELSE Arr(FirstRows(d.v, PreviewLimit))
    ELSE Null

\* sqlResult.fields || []
Fields(res) ==
    LET f == Get(res, "fields") IN IF Truthy(f) THEN f ELSE Arr(<<>>)

ChatData(query, res) ==
    [sqlQuery |-> query, resultCount |-> ResultCount(res),
     hasData |-> HasData(res), preview |-> Preview(res),
     fields |-> Fields(res)]

ChatResponse(naturalResponse, query, res) ==
    [status |-> 200,
     body |-> [response |-> naturalResponse, type |-> ReplyType(res),
               data |-> ChatData(query, res)]]

----------------------------------------------------------------------------
(* The environment: requests, the generative model, the database *)

Question == <<"h", "i">>

\* req.body.message: absent, empty, whitespace only, or a question.
Messages ==
    { Undefined, Str(<<>>), Str(<<" ">>), Str(<<" ", "\t", "\n">>), Str(Question) }

SelectOne == <<"S", "E", "L", "E", "C", "T", " ", "1">>
Inners == { SelectOne, <<"x", ";">> }

\* Other statements the model may write: one that returns rows without a
\* count, one that returns no rows, and a text of two statements.
ShowStmt == <<"S", "H", "O", "W", " ", "x">>
UpdateStmt == <<"U", "P", "D", "A", "T", "E", " ", "x">>
TwoStmts == SelectOne \o <<";">> \o SelectOne

WrapKinds == { "plain", "fence", "label", "labelInFence", "fenceAfterLabel" }

\* A raw model text that wraps an inner statement.
Wrap(kind, inner) ==
    CASE kind = "plain" -> inner
      [] kind = "fence" -> FenceSql \o <<"\n">> \o inner \o <<"\n">> \o Fence
      [] kind = "label" -> Label \o <<" ">> \o inner
      [] kind = "labelInFence" ->
            FenceSql \o <<"\n">> \o Label \o <<" ">> \o inner \o <<"\n">> \o Fence
      [] kind = "fenceAfterLabel" ->
            Label \o <<" ">> \o FenceSql \o <<"\n">> \o inner \o <<"\n">> \o Fence

\* Raw texts the model may answer to the synthesis prompt.
RawTexts ==
    { Wrap(k, i) : k \in WrapKinds, i \in Inners }
      \cup { <<" ">> \o Fence \o <<"S", "Q", "L", " ">> \o SelectOne \o <<" ">> \o Fence \o <<"\n">>,
             Fence \o <<"\n">> \o SelectOne \o <<"\n">> \o Fence,
             <<"o", "k", ":", "\n">> \o Wrap("fence", SelectOne),
             ShowStmt, UpdateStmt, TwoStmts, <<>> }

ModelErrors == { Error("quota exceeded"), Error("fetch failed") }

ModelSqlOutputs ==
    { [ok |-> TRUE, text |-> r] : r \in RawTexts }
      \cup { [ok |-> FALSE, error |-> e] : e \in ModelErrors }

NarrationTexts == { "Here is what I found.", "I could not find that." }

ModelNarrationOutputs ==
    { [ok |-> TRUE, text |-> x] : x \in NarrationTexts }
      \cup { [ok |-> FALSE, error |-> e] : e \in ModelErrors }

DbErrors == { Error("syntax error"), Error("relation does not exist") }

Row(i) == [id |-> i]

\* The pg result of a SELECT that yields n rows.
SelectResult(n) ==
    [rows |-> Arr([i \in 1..n |-> Row(i)]), rowCount |-> Num(n),
     fields |-> Arr(<< [name |-> "id"] >>)]

\* The pg result of a statement that returns no rows: rowCount counts the
\* affected rows, or is null for a statement without a count.
CommandResult(count) ==
    [rows |-> Arr(<<>>), rowCount |-> count, fields |-> Arr(<<>>)]

\* The pg result of a statement that returns rows under a command tag
\* without a count (SHOW, EXPLAIN): rowCount stays null.
UncountedResult(n) ==
    [rows |-> Arr([i \in 1..n |-> Row(i)]), rowCount |-> Null,
     fields |-> Arr(<< [name |-> "id"] >>)]

\* The pg result of a text with several statements is an array of results;
\* it has no rows, rowCount or fields property.
MultiResult == Arr(<< SelectResult(1), SelectResult(0) >>)

StartsWith(s, p) == Len(s) >= Len(p) /\ SubSeq(s, 1, Len(p)) = p

\* The results the database may give for a statement text it accepts; a
\* text it cannot parse (a code fence, prose) has none.
PgResults(text) ==
    IF text = <<>> THEN { CommandResult(Null) }
    ELSE IF text = TwoStmts THEN { MultiResult }
    ELSE IF text = SelectOne THEN { SelectResult(n) : n \in 0..MaxRows }
    ELSE IF StartsWith(text, ShowStmt) THEN { UncountedResult(1) }
    ELSE IF StartsWith(text, UpdateStmt) THEN { CommandResult(Num(2)) }
    ELSE {}

\* Outcomes of pool.query(text): an error (always possible: a missing
\* table, a database that is down), or a result.
DbResponses(query) ==
    { [ok |-> FALSE, error |-> e] : e \in DbErrors }
      \cup IF dbUp
           THEN { [ok |-> TRUE, result |-> r] : r \in PgResults(query.v) }
           ELSE {}

\* Outcome of pool.query(the catalog query).
CatalogResponse ==
    IF dbUp THEN [ok |-> TRUE, rows |-> catalog]
    ELSE [ok |-> FALSE, error |-> Error("connection refused")]

----------------------------------------------------------------------------
(* Concurrent invocations of the handler *)

Requests == 1..MaxTurns

\* The const declarations of one invocation of the handler.
EmptyFrame ==
    [message |-> Undefined, schema |-> Undefined, sqlQuery |-> Undefined,
     sqlResult |-> Undefined]

\* A turn that has not arrived: its position, what the environment gave it
\* (msg, catResp, modelResp, dbResp, narrResp), what its stages were called
\* with (synthArgs, execText, narrPrompt), and its reply.
IdleTurn ==
    [pc |-> "idle", reply |-> NoReply, msg |-> Undefined, catResp |-> Undefined,
     modelResp |-> Undefined, dbResp |-> Undefined, narrResp |-> Undefined,
     synthArgs |-> Undefined, execText |-> Undefined, narrPrompt |-> Undefined,
     overlapped |-> FALSE]

\* Variant: the values are module-level variables that all invocations share.
SlotShared(r) == 1

\* Where invocation r keeps its const values: in its own closure.
Slot(r) == r

Digit(r) == CASE r = 1 -> "1" [] r = 2 -> "2" [] OTHER -> "3"

\* Each caller asks its own question or sends no message.
ConcMessages(r) == { Undefined, Str(<<"q", Digit(r)>>) }

\* The model answers each caller's prompt with a different statement.
ConcText(r) == CASE r = 1 -> SelectOne [] r = 2 -> ShowStmt [] OTHER -> UpdateStmt

ConcModelOutputs(r) ==
    { [ok |-> TRUE, text |-> ConcText(r)],
      [ok |-> FALSE, error |-> Error("quota exceeded")] }

ConcNarrationOutputs ==
    { [ok |-> TRUE, text |-> "Here is what I found."],
      [ok |-> FALSE, error |-> Error("quota exceeded")] }

ConcDbResponses(query) ==
    { [ok |-> FALSE, error |-> Error("syntax error")] }
      \cup IF dbUp
           THEN { [ok |-> TRUE, result |-> x] :
                    x \in IF query.v = SelectOne
                          THEN { SelectResult(2) }
                          ELSE PgResults(query.v) }
           ELSE {}

----------------------------------------------------------------------------
(* POST /api/chat *)

\* useState([...]): the chat window starts with the welcome message.
WelcomeMessage == [sender |-> "bot", text |-> <<"Welcome to OpsBot!">>]

NoOutcome == [kind |-> "none"]

\* The Excel services have not been called.
NoCall == [pc |-> "idle"]

\* window.tableData = {}: no table has been generated.
NotGenerated == [generated |-> FALSE]

NoAttempt == [src |-> "none", accepted |-> FALSE, busy |-> FALSE]

Init ==
    /\ pc = "idle"
    /\ message = Undefined
    /\ catalog \in Catalogs
    /\ dbUp \in BOOLEAN
    /\ schema = Undefined
    /\ modelOut = Undefined
    /\ sqlQuery = Undefined
    /\ sqlResult = Undefined
    /\ prompt = Undefined
    /\ narration = Undefined
    /\ thrown = Undefined
    /\ calls = <<>>
    /\ reply = NoReply
    /\ prevSchema = Undefined
    /\ sent = 0
    /\ turns = [r \in Requests |-> IdleTurn]
    /\ frames = [r \in Requests |-> EmptyFrame]
    /\ tablesLog = <<>>
    /\ uiMessages = <<[msg |-> WelcomeMessage, of |-> 0]>>
    /\ uiLoading = FALSE
    /\ uiSeen = FALSE
    /\ uiSends = <<>>
    /\ uiLast = NoAttempt
    /\ shapeIn = NoOutcome
    /\ shapeOut = <<>>
    /\ pgTables = [t \in 1..MaxTables |-> NotGenerated]
    /\ px = NoCall
    /\ bl = NoCall

\* Variant: the schema is read again after the execution.
NextStageReintrospect(stage) ==
    CASE stage = "introspect" -> "synth"
      [] stage = "synth" -> "exec"
      [] stage = "exec" -> "introspect"
      [] stage = "narrate" -> "done"

\* Variant: a failed-or-not execution is run a second time.
NextStageRetry(stage) ==
    CASE stage = "introspect" -> "synth"
      [] stage = "synth" -> "exec"
      [] stage = "exec" -> "exec"
      [] stage = "narrate" -> "done"

\* The statement sequence of the handler: each await is followed by the
\* next stage.
NextStage(stage) ==
    CASE stage = "introspect" -> "synth"
      [] stage = "synth" -> "exec"
      [] stage = "exec" -> "narrate"
      [] stage = "narrate" -> "done"

\* Variant: a schema read by an earlier turn is used again.
SchemaForTurnCached(fresh, previous) ==
    IF previous.t = "array" THEN previous.v ELSE fresh

\* const schema = await getDatabaseSchema(): the turn uses the schema it has
\* just read; nothing of an earlier turn is kept.
SchemaForTurn(fresh, previous) == fresh

\* res.json(body): one more reply is sent.
Send(r) ==
    /\ reply' = r
    /\ sent' = sent + 1

\* Variant: the empty-schema reply is sent without return, and the handler
\* goes on to the synthesis.
AfterEarlyReplyFallThrough == "synth"

\* return res.json(...) of the empty-schema exit ends the handler.
AfterEarlyReply == "done"

\* An error reaches the catch block of the handler.
Caught(error) ==
    /\ thrown' = error
    /\ Send(CatchAllReply(error))
    /\ pc' = "done"

\* The request arrives; the message is validated.
ReceiveChat ==
    /\ pc = "idle"
    /\ \E m \in Messages :
         /\ message' = m
         /\ IF MessageMissing(m)
            THEN Send(ValidationReply) /\ pc' = "done"
            ELSE reply' = NoReply /\ pc' = "introspect" /\ UNCHANGED sent
    /\ UNCHANGED <<catalog, dbUp, schema, modelOut, sqlQuery, sqlResult,
                   prompt, narration, thrown, calls, prevSchema, turns, frames, otherVars>>

\* await getDatabaseSchema() and the empty-schema exit.
Introspect ==
    /\ pc = "introspect"
    /\ LET c == getDatabaseSchema(CatalogResponse) IN
         /\ calls' = Append(calls, [fn |-> "catalogQuery", resp |-> CatalogResponse,
                                     ok |-> CatalogResponse.ok])
         /\ IF c.kind = "return"
            THEN /\ schema' = SchemaForTurn(c.value, prevSchema)
                 /\ IF SchemaIsEmpty(schema')
                    THEN Send(DbUnavailableReply) /\ pc' = AfterEarlyReply
                    ELSE UNCHANGED <<reply, sent>> /\ pc' = NextStage("introspect")
                 /\ UNCHANGED thrown
            ELSE Caught(c.error) /\ UNCHANGED schema
    /\ UNCHANGED <<message, catalog, dbUp, modelOut, sqlQuery, sqlResult,
                   prompt, narration, prevSchema, turns, frames, otherVars>>

\* await generateSQLQuery(message, schema)
Synthesize ==
    /\ pc = "synth"
    /\ \E out \in ModelSqlOutputs :
         LET c == generateSQLQuery(out) IN
         /\ modelOut' = out
         /\ calls' = Append(calls, [fn |-> "generateContent", stage |-> "synthesis",
                                     ok |-> out.ok, question |-> message,
                                     schema |-> schema])
         /\ IF c.kind = "return"
            THEN sqlQuery' = c.value /\ pc' = NextStage("synth")
                 /\ UNCHANGED <<thrown, reply, sent>>
            ELSE Caught(c.error) /\ UNCHANGED sqlQuery
    /\ UNCHANGED <<message, catalog, dbUp, schema, sqlResult, prompt, narration,
                   prevSchema, turns, frames, otherVars>>

\* await executeSQLQuery(sqlQuery)
Execute ==
    /\ pc = "exec"
    /\ \E dbResp \in DbResponses(StatementSent(sqlQuery)) :
         LET c == executeSQLQuery(sqlQuery, dbResp) IN
         /\ calls' = Append(calls, [fn |-> "query", ok |-> dbResp.ok,
                                     text |-> StatementSent(sqlQuery),
                                     resp |-> dbResp])
         /\ IF c.kind = "return"
            THEN sqlResult' = c.value /\ pc' = NextStage("exec")
                 /\ UNCHANGED <<thrown, reply, sent>>
            ELSE Caught(c.error) /\ UNCHANGED sqlResult
    /\ UNCHANGED <<message, catalog, dbUp, schema, modelOut, sqlQuery, prompt,
                   narration, prevSchema, turns, frames, otherVars>>

\* await generateNaturalResponse(sqlQuery, sqlResult, message), then the
\* reply is assembled and sent.
Narrate ==
    /\ pc = "narrate"
    /\ LET p == NarratorPrompt(sqlQuery, sqlResult, message) IN
         IF p.kind = "throw"
         THEN Caught(p.error) /\ UNCHANGED <<prompt, narration, calls>>
         ELSE \E out \in ModelNarrationOutputs :
                LET c == NarratorResult(out) IN
                /\ prompt' = p.value
                /\ narration' = out
                /\ calls' = Append(calls, [fn |-> "generateContent",
                                            stage |-> "narration", ok |-> out.ok,
                                            prompt |-> p.value])
                /\ IF c.kind = "return"
                   THEN /\ Send(ChatResponse(c.value, sqlQuery, sqlResult))
                        /\ pc' = NextStage("narrate")
                        /\ UNCHANGED thrown
                   ELSE Caught(c.error)
    /\ UNCHANGED <<message, catalog, dbUp, schema, modelOut, sqlQuery, sqlResult,
                   prevSchema, turns, frames, otherVars>>

\* The turn is over; its values are discarded.
Complete ==
    /\ pc = "done"
    /\ pc' = "idle"
    /\ message' = Undefined
    /\ schema' = Undefined
    /\ modelOut' = Undefined
    /\ sqlQuery' = Undefined
    /\ sqlResult' = Undefined
    /\ prompt' = Undefined
    /\ narration' = Undefined
    /\ thrown' = Undefined
    /\ calls' = <<>>
    /\ reply' = NoReply
    /\ sent' = 0
    /\ prevSchema' = IF \E i \in 1..Len(calls) : calls[i].fn = "catalogQuery"
                     THEN Arr(schema) ELSE prevSchema
    /\ UNCHANGED <<catalog, dbUp, turns, frames, otherVars>>

\* The database changes its tables, goes down or comes back.
DbChange ==
    /\ \E c \in Catalogs, u \in BOOLEAN :
         /\ <<c, u>> # <<catalog, dbUp>>
         /\ catalog' = c
         /\ dbUp' = u
    /\ UNCHANGED <<pc, message, schema, modelOut, sqlQuery, sqlResult, prompt,
                   narration, thrown, calls, reply, prevSchema, sent, turns,
                   frames, otherVars>>

Next ==
    \/ ReceiveChat
    \/ Introspect
    \/ Synthesize
    \/ Execute
    \/ Narrate
    \/ Complete
    \/ DbChange

Spec == Init /\ [][Next]_vars

\* Every database call and every model call returns or throws: a turn that
\* waits at an await is resumed.
AwaitsSettle ==
    /\ WF_vars(Introspect)
    /\ WF_vars(Synthesize)
    /\ WF_vars(Execute)
    /\ WF_vars(Narrate)

SpecLive == Spec /\ AwaitsSettle

----------------------------------------------------------------------------
(* POST /api/chat, several invocations interleaved at their awaits *)

InFlight(r) == turns[r].pc \notin {"idle", "done"}

OthersInFlight(r) == \E o \in Requests \ {r} : InFlight(o)

\* Invocation r takes a step: its record becomes t.
TurnStep(r, t) ==
    turns' = [turns EXCEPT ![r] = [t EXCEPT !.overlapped = @ \/ OthersInFlight(r)]]

\* The request of r arrives; the message is validated.
ConcReceive(r) ==
    /\ turns[r].pc = "idle"
    /\ \E m \in ConcMessages(r) :
         /\ frames' = [frames EXCEPT ![Slot(r)].message = m]
         /\ TurnStep(r, [turns[r] EXCEPT
                !.msg = m,
                !.pc = IF MessageMissing(frames'[Slot(r)].message)
                       THEN "done" ELSE "introspect",
                !.reply = IF MessageMissing(frames'[Slot(r)].message)
                          THEN ValidationReply ELSE NoReply])
    /\ UNCHANGED <<catalog, dbUp>>
    /\ UNCHANGED <<turnVars, otherVars>>

\* await getDatabaseSchema() and the empty-schema exit of r.
ConcIntrospect(r) ==
    /\ turns[r].pc = "introspect"
    /\ LET c == getDatabaseSchema(CatalogResponse) IN
         IF c.kind = "return"
         THEN /\ frames' = [frames EXCEPT ![Slot(r)].schema = c.value]
              /\ TurnStep(r, [turns[r] EXCEPT
                     !.catResp = CatalogResponse,
                     !.pc = IF SchemaIsEmpty(frames'[Slot(r)].schema)
                            THEN "done" ELSE NextStage("introspect"),
                     !.reply = IF SchemaIsEmpty(frames'[Slot(r)].schema)
                               THEN DbUnavailableReply ELSE NoReply])
         ELSE /\ TurnStep(r, [turns[r] EXCEPT
                     !.catResp = CatalogResponse, !.pc = "done",
                     !.reply = CatchAllReply(c.error)])
              /\ UNCHANGED frames
    /\ UNCHANGED <<catalog, dbUp>>
    /\ UNCHANGED <<turnVars, otherVars>>

\* await generateSQLQuery(message, schema) of r.
ConcSynthesize(r) ==
    /\ turns[r].pc = "synth"
    /\ \E out \in ConcModelOutputs(r) :
         LET c == generateSQLQuery(out)
             args == [question |-> frames[Slot(r)].message,
                      schema |-> frames[Slot(r)].schema]
         IN IF c.kind = "return"
            THEN /\ frames' = [frames EXCEPT ![Slot(r)].sqlQuery = c.value]
                 /\ TurnStep(r, [turns[r] EXCEPT
                        !.modelResp = out, !.synthArgs = args,
                        !.pc = NextStage("synth")])
            ELSE /\ TurnStep(r, [turns[r] EXCEPT
                        !.modelResp = out, !.synthArgs = args, !.pc = "done",
                        !.reply = CatchAllReply(c.error)])
                 /\ UNCHANGED frames
    /\ UNCHANGED <<catalog, dbUp>>
    /\ UNCHANGED <<turnVars, otherVars>>

\* await executeSQLQuery(sqlQuery) of r.
ConcExecute(r) ==
    /\ turns[r].pc = "exec"
    /\ LET q == frames[Slot(r)].sqlQuery IN
         \E dbResp \in ConcDbResponses(StatementSent(q)) :
            LET c == executeSQLQuery(q, dbResp) IN
            IF c.kind = "return"
            THEN /\ frames' = [frames EXCEPT ![Slot(r)].sqlResult = c.value]
                 /\ TurnStep(r, [turns[r] EXCEPT
                        !.dbResp = dbResp, !.execText = StatementSent(q),
                        !.pc = NextStage("exec")])
            ELSE /\ TurnStep(r, [turns[r] EXCEPT
                        !.dbResp = dbResp, !.execText = StatementSent(q),
                        !.pc = "done", !.reply = CatchAllReply(c.error)])
                 /\ UNCHANGED frames
    /\ UNCHANGED <<catalog, dbUp>>
    /\ UNCHANGED <<turnVars, otherVars>>

\* await generateNaturalResponse(sqlQuery, sqlResult, message) of r, then
\* its reply is assembled and sent.
ConcNarrate(r) ==
    /\ turns[r].pc = "narrate"
    /\ LET f == frames[Slot(r)]
           p == NarratorPrompt(f.sqlQuery, f.sqlResult, f.message)
       IN IF p.kind = "throw"
          THEN TurnStep(r, [turns[r] EXCEPT
                   !.pc = "done", !.reply = CatchAllReply(p.error)])
          ELSE \E out \in ConcNarrationOutputs :
                 LET c == NarratorResult(out) IN
                 TurnStep(r, [turns[r] EXCEPT
                     !.narrResp = out, !.narrPrompt = p.value,
                     !.pc = IF c.kind = "return" THEN NextStage("narrate")
                            ELSE "done",
                     !.reply = IF c.kind = "return"
                               THEN ChatResponse(c.value, f.sqlQuery, f.sqlResult)
                               ELSE CatchAllReply(c.error)])
    /\ UNCHANGED <<catalog, dbUp, frames>>
    /\ UNCHANGED <<turnVars, otherVars>>

NextConc ==
    \/ \E r \in Requests : ConcReceive(r)
    \/ \E r \in Requests : ConcIntrospect(r)
    \/ \E r \in Requests : ConcSynthesize(r)
    \/ \E r \in Requests : ConcExecute(r)
    \/ \E r \in Requests : ConcNarrate(r)
    \/ DbChange

SpecConc == Init /\ [][NextConc]_vars

----------------------------------------------------------------------------
(* GET /api/tables *)

\* Object.keys(schema)
SchemaKeys(sch) == [i \in 1..Len(sch) |-> sch[i].table]

\* The try block answers with the schema; the catch block with the error.
TablesReply(c) ==
    IF c.kind = "return"
    THEN [status |-> 200,
          body |-> [success |-> TRUE, tables |-> SchemaKeys(c.value),
                    schema |-> c.value]]
    ELSE [status |-> 500, body |-> [success |-> FALSE, error |-> c.error.message]]

\* One request: await getDatabaseSchema(), then the reply.  The log keeps
\* what the database held, what the catalog query gave and the reply.
GetTables ==
    /\ Len(tablesLog) < MaxRequests
    /\ tablesLog' = Append(tablesLog,
            [catalog |-> catalog, resp |-> CatalogResponse,
             reply |-> TablesReply(getDatabaseSchema(CatalogResponse))])
    /\ UNCHANGED <<catalog, dbUp, turnVars, concVars, frontVars, shapeVars,
                   pgTables, px, bl>>

NextTables ==
    \/ GetTables
    \/ DbChange

SpecTables == Init /\ [][NextTables]_vars

----------------------------------------------------------------------------
(* Properties of the chat turn *)

SchemaRead == \E i \in 1..Len(calls) : calls[i].fn = "catalogQuery"

ModelCalled == \E i \in 1..Len(calls) : calls[i].fn = "generateContent"

SynthesizerCalled ==
    \E i \in 1..Len(calls) :
        calls[i].fn = "generateContent" /\ calls[i].stage = "synthesis"

NarratorModelCalled ==
    \E i \in 1..Len(calls) :
        calls[i].fn = "generateContent" /\ calls[i].stage = "narration"

ExecutorCalled == \E i \in 1..Len(calls) : calls[i].fn = "query"

ExecutionFailed ==
    \E i \in 1..Len(calls) : calls[i].fn = "query" /\ ~calls[i].ok

SynthesisModelFailed ==
    \E i \in 1..Len(calls) :
        calls[i].fn = "generateContent" /\ calls[i].stage = "synthesis" /\ ~calls[i].ok

NarrationModelFailed ==
    \E i \in 1..Len(calls) :
        calls[i].fn = "generateContent" /\ calls[i].stage = "narration" /\ ~calls[i].ok

\* The reply was assembled from the execution outcome.
ReplyAssembled == pc = "done" /\ "body" \in DOMAIN reply /\ "data" \in DOMAIN reply.body

\* C1: in a turn whose introspection yields an empty schema, the reply has
\* type "error" and the database-unavailable narrative, and neither the model
\* nor the executor is called.
C1_EmptySchemaShortCircuits ==
    (SchemaRead /\ Len(schema) = 0) =>
        /\ pc = "done"
        /\ reply.body.type = "error"
        /\ reply.body.response = DbUnavailableNarrative
        /\ ~ModelCalled
        /\ ~ExecutorCalled

C1_Witness == pc = "done" /\ SchemaRead /\ Len(schema) = 0 /\ dbUp

\* The question is absent, empty or made of whitespace only.
BlankQuestion(m) == m.t = "undefined" \/ (m.t = "string" /\ Trim(m.v) = <<>>)

\* C2: a turn whose question is empty or whitespace only answers 400 and
\* calls neither the Synthesizer, the Executor nor the Narrator.
C2_BlankQuestionRejected ==
    (pc # "idle" /\ BlankQuestion(message)) =>
        /\ ~ModelCalled
        /\ ~ExecutorCalled
        /\ pc = "done" => reply.status = 400

\* C3: when the model call of the synthesis throws, the turn ends with a 500
\* reply of type "error" that carries an error message, and the Executor
\* and the Narrator are not called.
C3_SynthesisFailureIs500 ==
    SynthesisModelFailed =>
        /\ pc = "done"
        /\ reply.status = 500
        /\ reply.body.type = "error"
        /\ "error" \in DOMAIN reply.body
        /\ reply.body.error = SynthFailureMessage
        /\ ~ExecutorCalled
        /\ ~NarratorModelCalled

C3_Witness == pc = "done" /\ SynthesisModelFailed /\ reply.status = 500

\* C4: an exception that leaves its stage is answered by the handler's
\* catch block: a reply of type "error" with the apology narrative and the
\* message of that exception.
C4_EscapedExceptionAnswered ==
    /\ thrown # Undefined =>
          /\ pc = "done"
          /\ reply.status = 500
          /\ reply.body.type = "error"
          /\ reply.body.response = ApologyNarrative
          /\ "error" \in DOMAIN reply.body
          /\ reply.body.error = thrown.message
    /\ (pc = "done" /\ sqlResult # Undefined /\ sqlResult.success
          /\ sqlResult.data = Undefined) =>
          /\ thrown = Error(LengthOfUndefinedMessage)
          /\ ~NarratorModelCalled
    /\ SynthesisModelFailed => thrown = Error(SynthFailureMessage)

C4_Witness ==
    /\ pc = "done"
    /\ thrown = Error(LengthOfUndefinedMessage)
    /\ ExecutorCalled
    /\ reply.status = 500

\* C5: a SQL execution error gives a Failure outcome, the Narrator is called
\* with that Failure, and the turn ends with a 200 reply of type "error"
\* that is not the catch-all reply.
C5_ExecutionErrorNotFatal ==
    ExecutionFailed =>
        /\ pc \in {"narrate", "done"}
        /\ sqlResult # Undefined
        /\ ~sqlResult.success
        /\ sqlResult.sqlQuery = sqlQuery
        /\ pc = "done" =>
              /\ NarratorModelCalled
              /\ prompt.kind = "miss"
              /\ prompt.error = sqlResult.error
              /\ thrown = Undefined
              /\ reply.status = 200
              /\ reply.body.type = "error"
              /\ "data" \in DOMAIN reply.body

C5_Witness == pc = "done" /\ ExecutionFailed /\ reply.status = 200

C7_NoFenceToExecutor ==
    \A i \in 1..Len(calls) : calls[i].fn = "query" => ~HasFence(calls[i].text.v)

\* C8: cleaning a raw text that wraps an inner statement in a sql fence
\* and/or the label, in either nesting order, yields the inner statement
\* without leading or trailing whitespace.
C8_CleanYieldsInner ==
    (modelOut # Undefined /\ modelOut.ok /\ pc # "synth") =>
        \A k \in WrapKinds, i \in Inners :
            (modelOut.text = Wrap(k, i) /\ ~HasFence(i)) => sqlQuery.v = Trim(i)

\* C9: in a reply assembled after execution, type is "success" exactly when
\* the outcome is a Success, also with zero rows, and "error" exactly when
\* it is a Failure.
C9_TypeMirrorsSuccess ==
    ReplyAssembled =>
        /\ reply.body.type = "success" <=> sqlResult.success
        /\ reply.body.type = "error" <=> ~sqlResult.success
        /\ sqlResult.success <=> ~ExecutionFailed

C9_Witness ==
    /\ ReplyAssembled
    /\ sqlResult.success
    /\ sqlResult.data = Arr(<<>>)
    /\ reply.body.type = "success"

\* C10: the reply of a turn whose execution failed has resultCount 0 and
\* hasData false.
C10_FailedExecutionHasNoData ==
    (pc = "done" /\ ExecutionFailed) =>
        /\ "data" \in DOMAIN reply.body
        /\ reply.body.data.resultCount = Num(0)
        /\ reply.body.data.hasData = Bool(FALSE)

C10_Witness ==
    /\ pc = "done"
    /\ ExecutionFailed
    /\ reply.body.data.resultCount = Num(0)

\* C11: after a successful execution, preview is a prefix of the result set
\* in row order, of length at most 10 and at most resultCount.
C11_PreviewBoundedPrefix ==
    (ReplyAssembled /\ sqlResult.success) =>
        LET p == reply.body.data.preview.v
            rows == sqlResult.data.v
        IN /\ Len(p) <= 10
           /\ Len(p) <= Len(rows)
           /\ p = SubSeq(rows, 1, Len(p))
           /\ Len(p) <= reply.body.data.resultCount.v

EnvelopeFields == {"sqlQuery", "resultCount", "hasData", "preview", "fields"}

\* C12: every 200 reply holds a response, a type that is "success" or
\* "error", and a data object with sqlQuery, resultCount, hasData, preview
\* and fields.
C12_FullEnvelopeOn200 ==
    (pc = "done" /\ reply.status = 200) =>
        /\ "response" \in DOMAIN reply.body
        /\ "type" \in DOMAIN reply.body
        /\ reply.body.type \in {"success", "error"}
        /\ "data" \in DOMAIN reply.body
        /\ DOMAIN reply.body.data = EnvelopeFields

StageOrder == <<"introspection", "synthesis", "execution", "narration">>

StageOfCall(c) ==
    CASE c.fn = "catalogQuery" -> "introspection"
      [] c.fn = "query" -> "execution"
      [] OTHER -> c.stage

\* C13: the stages of a turn run in the order introspection, synthesis,
\* execution, narration, each with the result of the one before, and none
\* is run again.
C13_StagesInOrder ==
    /\ Len(calls) <= Len(StageOrder)
    /\ \A i \in 1..Len(calls) : StageOfCall(calls[i]) = StageOrder[i]
    /\ \A i \in 1..Len(calls) :
          /\ StageOfCall(calls[i]) = "synthesis" =>
                calls[i - 1].ok /\ calls[i].schema = schema
          /\ StageOfCall(calls[i]) = "execution" =>
                calls[i - 1].ok /\ calls[i].text = sqlQuery
          /\ StageOfCall(calls[i]) = "narration" =>
                calls[i].prompt.sql = sqlQuery /\ sqlResult # Undefined
    /\ pc = "synth" => Len(calls) = 1
    /\ pc = "exec" => Len(calls) = 2
    /\ pc = "narrate" => Len(calls) = 3

C13_Witness == pc = "done" /\ Len(calls) = 4 /\ reply.status = 200

CallsOfStage(stage) == { i \in 1..Len(calls) : StageOfCall(calls[i]) = stage }

\* C14: in one turn the model is called at most once for the synthesis and
\* at most once for the narration, and the SQL is executed at most once,
\* also when the call failed.
C14_AtMostOneCallEach ==
    /\ Cardinality(CallsOfStage("synthesis")) <= 1
    /\ Cardinality(CallsOfStage("execution")) <= 1
    /\ Cardinality(CallsOfStage("narration")) <= 1
    /\ ExecutionFailed => pc \in {"narrate", "done"}
    /\ SynthesisModelFailed => pc = "done"
    /\ NarrationModelFailed => pc = "done"

C14_Witness ==
    /\ pc = "done"
    /\ ExecutionFailed
    /\ NarrationModelFailed
    /\ Cardinality(CallsOfStage("execution")) = 1
    /\ Cardinality(CallsOfStage("narration")) = 1

\* The texts the server words itself.
TemplatedMessages ==
    { NarratorFallback, DbUnavailableNarrative, ApologyNarrative,
      "Message is required", SynthFailureMessage }

\* C17: every text field the server puts in a reply is the model's narration
\* or a fixed templated message, never the message of an exception.
C17_NoRawErrorInReply ==
    pc = "done" =>
        \A f \in {"response", "error"} \cap DOMAIN reply.body :
            reply.body[f] \in TemplatedMessages \cup NarrationTexts

DbErrorMessages == { e.message : e \in DbErrors }

\* C17 as amended: the narrative of every reply is the model's narration or
\* a fixed templated message and no reply field holds the database's error
\* text; the only other text is the error field, which is "Message is
\* required" in the 400 reply and the message of the caught exception in
\* the 500 reply.
C17_NarrativeIsTemplated ==
    pc = "done" =>
        /\ "response" \in DOMAIN reply.body =>
              reply.body.response \in TemplatedMessages \cup NarrationTexts
        /\ "error" \in DOMAIN reply.body =>
              /\ reply.status \in {400, 500}
              /\ reply.status = 400 => reply.body.error = "Message is required"
              /\ reply.status = 500 => reply.body.error = thrown.message
              /\ reply.body.error \notin DbErrorMessages
        /\ reply.status = 200 => "error" \notin DOMAIN reply.body

C17_Witness ==
    /\ pc = "done"
    /\ reply.status = 500
    /\ reply.body.error = LengthOfUndefinedMessage
    /\ reply.body.response = ApologyNarrative
    /\ sqlResult # Undefined

\* C18: when the catalog query fails, the introspection returns an empty
\* mapping and raises nothing.
C18_CatalogFailureGivesEmptySchema ==
    (Len(calls) >= 1 /\ calls[1].fn = "catalogQuery" /\ ~calls[1].ok) =>
        /\ thrown = Undefined
        /\ Len(schema) = 0
        /\ reply = DbUnavailableReply

C18_Witness ==
    /\ pc = "done"
    /\ Len(calls) = 1
    /\ ~calls[1].ok
    /\ reply.status = 200

\* The outcome is a Success with at least one row.
HasRows(res) == res.success /\ res.data.t = "array" /\ Len(res.data.v) >= 1

\* The outcome is a Failure or a Success with zero rows.
IsMiss(res) == ~res.success \/ (res.data.t = "array" /\ Len(res.data.v) = 0)

\* C19: the Narrator builds the result prompt (question, SQL, row count,
\* first 5 rows) exactly when the outcome is a Success with at least one
\* row, and the miss prompt (question, SQL, failure message or "No results
\* found") exactly when it is a Failure or a Success with zero rows.
C19_PromptFollowsOutcome ==
    /\ prompt # Undefined =>
          /\ prompt.kind = "result" <=> HasRows(sqlResult)
          /\ prompt.kind = "miss" <=> IsMiss(sqlResult)
          /\ prompt.question = message
          /\ prompt.sql = sqlQuery
          /\ prompt.kind = "result" =>
                /\ prompt.rowCount = sqlResult.rowCount
                /\ Len(prompt.preview) <= 5
                /\ prompt.preview = SubSeq(sqlResult.data.v, 1, Len(prompt.preview))
                /\ Len(sqlResult.data.v) >= 5 => Len(prompt.preview) = 5
          /\ prompt.kind = "miss" =>
                prompt.error = IF sqlResult.success THEN "No results found"
                               ELSE sqlResult.error
    /\ (pc = "done" /\ sqlResult # Undefined
          /\ (HasRows(sqlResult) \/ IsMiss(sqlResult))) => prompt # Undefined

C19_Witness ==
    /\ pc = "done"
    /\ prompt # Undefined
    /\ prompt.kind = "miss"
    /\ sqlResult.success

\* C20: the statement sent to the database is the cleaned query unchanged; a
\* Failure carries the database's error message and that query text; the
\* sqlQuery of the reply is the statement that was executed.
C20_StatementUnmodified ==
    \A i \in 1..Len(calls) :
        calls[i].fn = "query" =>
            /\ calls[i].text = Str(CleanQuery(modelOut.text))
            /\ calls[i].text = sqlQuery
            /\ ~calls[i].ok =>
                  /\ sqlResult # Undefined
                  /\ sqlResult.error = calls[i].resp.error.message
                  /\ sqlResult.sqlQuery = calls[i].text
            /\ ReplyAssembled => reply.body.data.sqlQuery = calls[i].text

C20_Witness ==
    /\ ReplyAssembled
    /\ ExecutionFailed
    /\ sqlQuery.v = SelectOne
    /\ modelOut.text # SelectOne

\* The schema that the catalog rows read in this turn describe.
SchemaOfThisTurn ==
    IF calls[1].ok THEN GroupRows(<<>>, calls[1].resp.rows) ELSE <<>>

TablesOf(sch) == { sch[i].table : i \in 1..Len(sch) }

\* C15: every turn with a non-empty question reads the schema itself, and
\* the schema given to the Synthesizer is the one read in that turn, never
\* one read by an earlier turn.
C15_SchemaReadEveryTurn ==
    /\ (pc \notin {"idle", "introspect"} /\ Truthy(message)) =>
          /\ Len(calls) >= 1
          /\ calls[1].fn = "catalogQuery"
          /\ schema = SchemaOfThisTurn
          /\ calls[1].ok =>
                TablesOf(schema) =
                    { calls[1].resp.rows[j].table_name :
                        j \in 1..Len(calls[1].resp.rows) }
    /\ \A i \in 1..Len(calls) :
          StageOfCall(calls[i]) = "synthesis" =>
              calls[i].schema = SchemaOfThisTurn

C15_Witness ==
    /\ SynthesizerCalled
    /\ prevSchema.t = "array"
    /\ Len(prevSchema.v) > 0
    /\ prevSchema.v # schema
    /\ schema = SchemaOfThisTurn

\* What a turn's own inputs give when its stages run alone.
OwnSchema(t) == getDatabaseSchema(t.catResp).value

OwnQuery(t) == generateSQLQuery(t.modelResp).value

OwnResult(t) == executeSQLQuery(OwnQuery(t), t.dbResp).value

OwnPrompt(t) == NarratorPrompt(OwnQuery(t), OwnResult(t), t.msg)

\* The reply of a finished turn as its own question, schema, query and
\* outcome determine it.
OwnReply(t) ==
    IF MessageMissing(t.msg) THEN ValidationReply
    ELSE IF t.catResp = Undefined THEN NoReply
    ELSE IF SchemaIsEmpty(OwnSchema(t)) THEN DbUnavailableReply
    ELSE IF t.modelResp = Undefined THEN NoReply
    ELSE IF ~t.modelResp.ok THEN CatchAllReply(generateSQLQuery(t.modelResp).error)
    ELSE IF t.dbResp = Undefined THEN NoReply
    ELSE IF OwnPrompt(t).kind = "throw" THEN CatchAllReply(OwnPrompt(t).error)
    ELSE IF t.narrResp = Undefined THEN NoReply
    ELSE ChatResponse(NarratorResult(t.narrResp).value, OwnQuery(t), OwnResult(t))

\* C16: in every interleaving of concurrent turns, each turn's stages are
\* called with that turn's own question, schema, query and outcome, and its
\* reply is the one these determine.
C16_TurnsIndependent ==
    \A r \in Requests :
        LET t == turns[r] IN
        /\ t.synthArgs # Undefined =>
              /\ t.synthArgs.question = t.msg
              /\ t.synthArgs.schema = OwnSchema(t)
        /\ t.execText # Undefined => t.execText = StatementSent(OwnQuery(t))
        /\ t.narrPrompt # Undefined =>
              /\ OwnPrompt(t).kind = "return"
              /\ t.narrPrompt = OwnPrompt(t).value
        /\ t.pc = "done" => t.reply = OwnReply(t)

C16_Witness ==
    /\ \A r \in Requests :
          /\ turns[r].pc = "done"
          /\ turns[r].overlapped
          /\ turns[r].reply.status = 200
          /\ "data" \in DOMAIN turns[r].reply.body
    /\ turns[1].reply.body.data.sqlQuery # turns[2].reply.body.data.sqlQuery

----------------------------------------------------------------------------
(* Properties of GET /api/tables and of the introspection *)

\* The descriptors of the catalog rows of one table, in the order of the rows.
ColumnsOf(rows, tbl) ==
    LET own == SelectSeq(rows, LAMBDA r : r.table_name = tbl)
    IN [k \in 1..Len(own) |-> Descriptor(own[k])]

\* The schema mapping that request i of the log was answered with.
SchemaAnswered(i) == Get(tablesLog[i].reply.body, "schema")

C26_TablesAlways200 ==
    \A i \in 1..Len(tablesLog) :
        LET r == tablesLog[i].reply IN
        /\ r.status = 200
        /\ r.body.success
        /\ ~tablesLog[i].resp.ok =>
              /\ r.body.tables = <<>>
              /\ r.body.schema = <<>>
        /\ tablesLog[i].resp.ok =>
              r.body.tables = SchemaKeys(GroupRows(<<>>, tablesLog[i].catalog))

C26_Witness ==
    /\ Len(tablesLog) >= 2
    /\ ~tablesLog[1].resp.ok
    /\ tablesLog[1].catalog = CatalogEmployees
    /\ tablesLog[1].reply.status = 200
    /\ tablesLog[2].resp.ok
    /\ tablesLog[2].reply.body.tables = <<"employees">>

----------------------------------------------------------------------------
(* Properties of the reply of POST /api/chat *)

\* C24: when every database call and every model call returns or throws,
\* every request gets exactly one reply: the handler never sends a second
\* one, never ends without one, and always ends.
C24_ExactlyOneReply ==
    /\ [](sent <= 1)
    /\ [](pc = "done" => (sent = 1 /\ reply # NoReply))
    /\ [](pc \in {"introspect", "synth", "exec", "narrate"} => sent = 0)
    /\ (pc # "idle") ~> (pc = "done" /\ sent = 1)

C24_Witness ==
    /\ pc = "done"
    /\ sent = 1
    /\ thrown # Undefined
    /\ Len(calls) = 3

----------------------------------------------------------------------------
(* ChatBot.jsx: the texts of the chat window *)

\* A text of the chat window is a sequence of pieces: single characters, and
\* the words the code searches for, one piece each.

\* The bullet character (U+2022), written as a named token.
Bullet == "bullet"

\* The two characters backslash and n.
LiteralNl == "\\n"

\* String.prototype.includes
Includes(s, sub) ==
    \E i \in 1..(Len(s) - Len(sub) + 1) : SubSeq(s, i, i + Len(sub) - 1) = sub

\* The first position at or after from where sub occurs in s, 0 when none.
FirstAt(s, sub, from) ==
    LET hits == { i \in from..(Len(s) - Len(sub) + 1) :
                    SubSeq(s, i, i + Len(sub) - 1) = sub }
    IN IF hits = {} THEN 0 ELSE CHOOSE i \in hits : \A j \in hits : i <= j

\* .replace(/x/g, y) for a single piece x
RECURSIVE ReplacePiece(_, _, _)
ReplacePiece(s, x, y) ==
    IF s = <<>> THEN <<>>
    ELSE (IF Head(s) = x THEN <<y>> ELSE <<Head(s)>>) \o ReplacePiece(Tail(s), x, y)

\* .replace(/c+/g, ' ') for the pieces c of a set: each run becomes one space
RECURSIVE SqueezeRuns(_, _)
SqueezeRuns(s, set) ==
    IF s = <<>> THEN <<>>
    ELSE IF Head(s) \in set
         THEN IF Len(s) >= 2 /\ s[2] \in set
              THEN SqueezeRuns(Tail(s), set)
              ELSE <<" ">> \o SqueezeRuns(Tail(s), set)
         ELSE <<Head(s)>> \o SqueezeRuns(Tail(s), set)

\* rawText.replace(/\\n/g, ' ').replace(/\n+/g, ' ').replace(/\s+/g, ' ').trim()
CleanRaw(s) ==
    Trim(SqueezeRuns(SqueezeRuns(ReplacePiece(s, LiteralNl, " "), {"\n"}),
                     Whitespace))

\* .replace(/d(.*?)d/g, '$1') for a delimiter d, on a text without newlines
RECURSIVE StripPairs(_, _)
StripPairs(s, d) ==
    LET i == FirstAt(s, d, 1)
        j == IF i = 0 THEN 0 ELSE FirstAt(s, d, i + Len(d))
    IN IF j = 0 THEN s
       ELSE SubSeq(s, 1, i - 1) \o SubSeq(s, i + Len(d), j - 1)
              \o StripPairs(SubSeq(s, j + Len(d), Len(s)), d)

\* The length of the match of #{1,6}\s at the start of s, 0 when none.
HeaderAt(s) ==
    LET ks == { k \in 1..6 :
                  /\ Len(s) >= k + 1
                  /\ \A m \in 1..k : s[m] = "#"
                  /\ IsWs(s[k + 1]) }
    IN IF ks = {} THEN 0 ELSE (CHOOSE k \in ks : TRUE) + 1

\* .replace(/#{1,6}\s/g, '')
RECURSIVE RemoveHeaders(_)
RemoveHeaders(s) ==
    IF s = <<>> THEN <<>>
    ELSE IF HeaderAt(s) > 0
         THEN RemoveHeaders(SubSeq(s, HeaderAt(s) + 1, Len(s)))
         ELSE <<Head(s)>> \o RemoveHeaders(Tail(s))

\* .replace(/^\s*[-*+]\s/gm, bullet and space) on a text without newlines:
\* only the start of the text is the start of a line.
ListMarker(s) ==
    LET rest == TrimStart(s) IN
    IF Len(rest) >= 2 /\ rest[1] \in {"-", "*", "+"} /\ IsWs(rest[2])
    THEN <<Bullet, " ">> \o SubSeq(rest, 3, Len(rest))
    ELSE s

DigitPieces == {"0", "1", "2", "3", "4", "5", "6", "7", "8", "9"}

\* .replace(/^\s*\d+\.\s/gm, m => number, dot and space) on a text without
\* newlines.
NumberMarker(s) ==
    LET rest == TrimStart(s)
        ks == { k \in 1..Len(rest) :
                  /\ \A m \in 1..k : rest[m] \in DigitPieces
                  /\ Len(rest) >= k + 2
                  /\ rest[k + 1] = "."
                  /\ IsWs(rest[k + 2]) }
    IN IF ks = {} THEN s
       ELSE LET k == CHOOSE x \in ks : TRUE
            IN SubSeq(rest, 1, k) \o <<".", " ">> \o SubSeq(rest, k + 3, Len(rest))

cleanTextFormatting(text) ==
    Trim(SqueezeRuns(
        NumberMarker(ListMarker(RemoveHeaders(
            StripPairs(StripPairs(StripPairs(
                ReplacePiece(ReplacePiece(text, LiteralNl, " "), "\n", " "),
                <<"*", "*">>), <<"*">>), <<Tick>>)))),
        Whitespace))

----------------------------------------------------------------------------
(* ChatBot.jsx: from the API's answer to the bot message *)

\* A parsed JSON object or array keeps the text JSON.stringify gives for it.
Obj(fields, json) == [t |-> "object", v |-> fields, json |-> json]
List(items, json) == [t |-> "array", v |-> items, json |-> json]

\* x.f for a value that is not null or undefined
Prop(x, f) == IF x.t = "object" THEN Get(x.v, f) ELSE Undefined

\* a || b
JsOr(a, b) == IF Truthy(a) THEN a ELSE b

\* Array.isArray(x) && x.length > 0
NonEmptyArray(x) == x.t = "array" /\ Len(x.v) > 0

ErrorPrefix == <<"Error", ":", " ">>

DefaultErrorText ==
    <<"Sorry,", " ", "I", " ", "could", " ", "not", " ", "generate", " ", "a",
      " ", "response.">>

ReadOfNullMessage == <<"Cannot read properties of null">>
ReadOfUndefinedMessage == <<"Cannot read properties of undefined">>

\* let rawText = data.success ? (data.result.output || data.result)
\*                            : `Error: ${data.error || '...'}`
\* followed by JSON.stringify of a value that is not a string.
RawTextOf(data) ==
    IF data.t = "null" THEN Throw(Error(ReadOfNullMessage))
    ELSE IF Truthy(Prop(data, "success"))
         THEN LET r == Prop(data, "result") IN
              IF r.t \in {"undefined", "null"}
              THEN Throw(Error(IF r.t = "null" THEN ReadOfNullMessage
                               ELSE ReadOfUndefinedMessage))
              ELSE LET x == JsOr(Prop(r, "output"), r) IN
                   Return(IF x.t = "string" THEN x.v ELSE x.json)
         ELSE Return(ErrorPrefix \o JsOr(Prop(data, "error"), Str(DefaultErrorText)).v)

\* The text with one occurrence of a piece removed: line.replace(x, '')
RemoveFirst(s, x) ==
    LET i == FirstAt(s, <<x>>, 1) IN
    IF i = 0 THEN s ELSE SubSeq(s, 1, i - 1) \o SubSeq(s, i + 1, Len(s))

\* String.prototype.split for a separator of one piece
RECURSIVE SplitOn(_, _)
SplitOn(s, sep) ==
    LET i == FirstAt(s, <<sep>>, 1) IN
    IF i = 0 THEN <<s>>
    ELSE <<SubSeq(s, 1, i - 1)>> \o SplitOn(SubSeq(s, i + 1, Len(s)), sep)

\* One key: value pair of a line; colonIndex > 0.
PairOf(part) ==
    LET pair == Trim(part)
        c == FirstAt(pair, <<":">>, 1)
    IN IF c > 1
       THEN <<[key |-> Trim(SubSeq(pair, 1, c - 1)),
               value |-> Trim(SubSeq(pair, c + 1, Len(pair)))]>>
       ELSE <<>>

RECURSIVE PairsOf(_)
PairsOf(parts) ==
    IF parts = <<>> THEN <<>> ELSE PairOf(Head(parts)) \o PairsOf(Tail(parts))

\* The row of one line that holds a bullet.
RowOfLine(line) == PairsOf(SplitOn(Trim(RemoveFirst(line, Bullet)), ","))

RECURSIVE RowsOfLines(_)
RowsOfLines(lines) ==
    IF lines = <<>> THEN <<>>
    ELSE (IF Trim(Head(lines)) # <<>> /\ Includes(Head(lines), <<Bullet>>)
             /\ RowOfLine(Head(lines)) # <<>>
          THEN <<RowOfLine(Head(lines))>> ELSE <<>>)
         \o RowsOfLines(Tail(lines))

\* A row is the sequence of its key: value pairs.
parseStructuredData(text) == RowsOfLines(SplitOn(text, "\n"))

----------------------------------------------------------------------------
(* ChatBot.jsx: generated tables *)

RowsPerPage == 5

\* Math.ceil(n / rowsPerPage)
TotalPages(n) == (n + RowsPerPage - 1) \div RowsPerPage

NoTable == [pagination |-> FALSE, body |-> <<>>, count |-> 0]

\* The elements generateTableFromData writes for a non-empty data array:
\* the row count, the body with the first page, and, when there is more than
\* one page, the two buttons with their disabled flags and the page their
\* onclick asks for, and the page label.
TableDom(data, title) ==
    IF Len(data) = 0 THEN NoTable
    ELSE [title |-> title, count |-> Len(data),
          body |-> FirstRows(data, RowsPerPage),
          pagination |-> TotalPages(Len(data)) > 1,
          prevDisabled |-> TRUE, nextDisabled |-> FALSE,
          prevTarget |-> 1, nextTarget |-> 2,
          label |-> <<1, TotalPages(Len(data))>>,
          totalPages |-> TotalPages(Len(data))]

----------------------------------------------------------------------------
(* ChatBot.jsx: the bot message of a send *)

SelectedFile == <<"Selected file", ":", " ", "(">>
TheirDetails == <<"Their details are", ":">>

\* The pieces "image" and "data" between braces stand for an object text
\* that JSON.parse accepts after the replacement of the quote entities.
ImageBody == <<"image", ":", "data">>

\* The try block of the "Selected file" branch: the tuple between the
\* parentheses, the images array in it, and the text before its first comma.
\* It throws when there is no tuple, no array, or JSON.parse fails.
ParseSelectedFile(raw) ==
    LET i == FirstAt(raw, SelectedFile, 1)
        close == IF i = 0 THEN 0 ELSE FirstAt(raw, <<")">>, i + Len(SelectedFile) + 1)
        content == IF close = 0 THEN <<>>
                   ELSE SubSeq(raw, i + Len(SelectedFile), close - 1)
        a == FirstAt(content, <<"[", "{">>, 1)
        b == IF a = 0 THEN 0 ELSE FirstAt(content, <<"}", "]">>, a + 3)
    IN IF close = 0 \/ b = 0 \/ a = 0 THEN Throw(Error(<<"No images found">>))
       ELSE IF SubSeq(content, a + 2, b - 1) # ImageBody
            THEN Throw(Error(<<"Unexpected token">>))
            ELSE Return([text |-> Trim(Head(SplitOn(content, ","))),
                         images |-> <<[filename |-> "image", data |-> "data"]>>])

TextMessage(text) == [sender |-> "bot", text |-> text]

\* The if / else-if chain that shapes botMessage from the parsed answer and
\* the cleaned raw text.
BotMessageFor(data, raw) ==
    LET ok == Truthy(Prop(data, "success"))
        res == Prop(data, "result")
        inner == IF Truthy(res) THEN Prop(res, "result") ELSE Undefined
    IN
    IF ok /\ Truthy(res) /\ res.t \in {"object", "array"} /\ Truthy(Prop(res, "analysis"))
    THEN TextMessage(Prop(res, "analysis").v)
    ELSE IF ok /\ Truthy(inner) /\ NonEmptyArray(Prop(inner, "tableData"))
    THEN [sender |-> "bot",
          text |-> JsOr(Prop(inner, "text"), Str(<<"Data extracted from image:">>)).v,
          tableData |-> [html |-> TableDom(Prop(inner, "tableData").v,
                                           "Utilization Report Data"),
                         rowCount |-> Len(Prop(inner, "tableData").v)]]
    ELSE IF ok /\ Truthy(inner) /\ NonEmptyArray(Prop(inner, "images"))
    THEN [sender |-> "bot",
          text |-> JsOr(Prop(inner, "text"), Str(<<"Images found:">>)).v,
          images |-> Prop(inner, "images").v]
    ELSE IF ok /\ Truthy(res) /\ NonEmptyArray(Prop(res, "images"))
    THEN [sender |-> "bot",
          text |-> JsOr(Prop(res, "text"), Str(<<"Images found:">>)).v,
          images |-> Prop(res, "images").v]
    ELSE IF Includes(raw, <<"Selected file", ":">>) /\ Includes(raw, <<"image">>)
              /\ Includes(raw, <<"data">>)
    THEN LET c == ParseSelectedFile(raw) IN
         IF c.kind = "return"
         THEN [sender |-> "bot", text |-> c.value.text, images |-> c.value.images]
         ELSE TextMessage(cleanTextFormatting(raw))
    ELSE IF ok /\ res.t = "array" /\ Len(res.v) > 1 /\ res.v[2].t = "array"
    THEN [sender |-> "bot", text |-> JsOr(res.v[1], Str(raw)).v,
          images |-> res.v[2].v]
    ELSE IF Includes(raw, <<"<table">>) \/ Includes(raw, <<"<div">>)
              \/ Includes(raw, <<"<html">>)
    THEN [sender |-> "bot", text |-> <<>>, htmlContent |-> raw]
    ELSE IF Includes(raw, TheirDetails)
              \/ (Includes(raw, <<Bullet>>) /\ Includes(raw, <<":">>))
    THEN LET tableData == parseStructuredData(raw)
             i == FirstAt(raw, TheirDetails, 1)
             before == Trim(IF i = 0 THEN raw ELSE SubSeq(raw, 1, i - 1))
         IN IF Len(tableData) > 0
            THEN [sender |-> "bot",
                  text |-> IF before # <<>> THEN before
                           ELSE <<"Here are the details:">>,
                  tableData |-> [html |-> TableDom(tableData, "Associates Details"),
                                 rowCount |-> Len(tableData)]]
            ELSE TextMessage(cleanTextFormatting(raw))
    ELSE TextMessage(cleanTextFormatting(raw))

ApiErrorText == <<"I'm sorry, I encountered an error while processing your request.">>

\* The catch block of sendMessage words the error message.
ErrorMessageFor(error) ==
    [sender |-> "bot", isError |-> TRUE,
     text |->
        IF Includes(error.message, <<"403">>)
        THEN <<"API access error. Please verify the API endpoint is accessible.">>
        ELSE IF Includes(error.message, <<"429">>)
        THEN <<"API rate limit exceeded. Please try again later.">>
        ELSE IF Includes(error.message, <<"network">>)
                  \/ Includes(error.message, <<"Failed to fetch">>)
        THEN <<"Network error. Please check your connection to the API server and try again.">>
        ELSE ApiErrorText \o <<" ", "Details", ":", " ">> \o error.message]

----------------------------------------------------------------------------
(* ChatBot.jsx: the answers of the API at API_URL *)

HttpMessage(status, statusText) == <<"HTTP", " ", status, ":", " ", statusText>>

\* The texts a reply with success false may carry in its error property.
ErrorHeads ==
    { <<>>, <<"db", " ", "down">>, <<"bad", " ", "<div", ">", "x">>,
      <<Bullet, " ", "a", ":", " ", "b">>, <<"*", "no", "*", " ", "rows">>,
      <<"#", " ", "x">>, <<"-", " ", "x">> }

ErrorTails ==
    { <<>>, <<"\n", "y">>, <<" ", "<table", ">">>, <<" ", Bullet>>,
      <<" ">> \o TheirDetails, <<" ", "image", " ", "data">>,
      <<" ">> \o SelectedFile \o <<"x", ",", " ", "[", "{">> \o ImageBody
          \o <<"}", "]", ")">> }

ErrorTexts == { h \o t : h \in ErrorHeads, t \in ErrorTails }

SevenRows == [i \in 1..7 |-> <<[key |-> <<"id">>, value |-> <<"v">>]>>]

\* The parsed bodies of a 200 answer.
ApiBodies ==
    { Null,
      Obj([success |-> Bool(FALSE)], <<>>),
      Obj([success |-> Bool(TRUE)], <<>>),
      Obj([success |-> Bool(TRUE), result |-> Str(<<"All", "\n", "good", ".">>)], <<>>),
      Obj([success |-> Bool(TRUE),
           result |-> Obj([output |-> Str(<<"#", " ", "Done">>)], <<>>)], <<>>),
      Obj([success |-> Bool(TRUE),
           result |-> Obj([analysis |-> Str(<<"Two", " ", "trends">>)],
                          <<"{", "analysis", "}">>)], <<>>),
      Obj([success |-> Bool(TRUE),
           result |-> Obj([result |-> Obj([tableData |-> List(SevenRows, <<>>)],
                                          <<>>)],
                          <<"{", "result", "}">>)], <<>>),
      Obj([success |-> Bool(TRUE),
           result |-> List(<<Str(<<"chart">>),
                             List(<<[filename |-> "a.png", data |-> "iVBOR"]>>, <<>>)>>,
                           <<"[", "chart", "]">>)], <<>>) }
      \cup { Obj([success |-> Bool(FALSE), error |-> Str(e)], <<>>) : e \in ErrorTexts }

\* What fetch and response.json() may do: fetch rejects, the status is not
\* ok, the body is not JSON, or the body parses.
FetchOutcomes ==
    { [kind |-> "reject", error |-> Error(<<"Failed to fetch">>)],
      [kind |-> "http", error |-> Error(HttpMessage("403", "Forbidden"))],
      [kind |-> "http", error |-> Error(HttpMessage("429", "Too Many Requests"))],
      [kind |-> "http", error |-> Error(HttpMessage("500", "Internal Server Error"))],
      [kind |-> "badjson", error |-> Error(<<"Unexpected token">>)] }
      \cup { [kind |-> "json", data |-> d] : d \in ApiBodies }

\* The answers followed through the sends of the chat window.
SendOutcomes ==
    { [kind |-> "reject", error |-> Error(<<"Failed to fetch">>)],
      [kind |-> "http", error |-> Error(HttpMessage("500", "Internal Server Error"))],
      [kind |-> "json", data |-> Obj([success |-> Bool(TRUE)], <<>>)],
      [kind |-> "json",
       data |-> Obj([success |-> Bool(FALSE), error |-> Str(<<"db", " ", "down">>)],
                    <<>>)],
      [kind |-> "json",
       data |-> Obj([success |-> Bool(TRUE),
                     result |-> Str(<<"All", "\n", "good", ".">>)], <<>>)] }

----------------------------------------------------------------------------
(* ChatBot.jsx: sendMessage and its callers *)

\* The try block of sendMessage once fetch has settled: it throws, or it
\* gives the bot message.
TryBlock(outcome) ==
    IF outcome.kind # "json" THEN Throw(outcome.error)
    ELSE LET r == RawTextOf(outcome.data) IN
         IF r.kind = "throw" THEN r
         ELSE Return(BotMessageFor(outcome.data, CleanRaw(r.value)))

\* Variant: the catch block only logs the error.
SettleMessagesSilent(c) ==
    IF c.kind = "return" THEN <<c.value>> ELSE <<>>

\* What try and catch append to messages: the bot message, or the error
\* message of the catch block.
SettleMessages(c) ==
    IF c.kind = "return" THEN <<c.value>> ELSE <<ErrorMessageFor(c.error)>>

\* Variant: the render that follows an event is put off to a later moment.
RenderAfterEventDeferred(state, seen) == seen

\* The state updates of a click or submit handler are rendered and
\* committed before the next event is handled: the handlers and the ref of
\* useImperativeHandle, made anew by every render, then see the new state.
RenderAfterEvent(state, seen) == state

Sources == {"form", "quick", "sidebar"}

\* What the callers pass to sendMessage: the input's value, the text of a
\* quick-action button, the message of a sidebar item.
SendTexts(src) ==
    CASE src = "form" -> { <<" ">>, <<"h", "i">> }
      [] src = "quick" -> { <<"Show me the bench report">> }
      [] src = "sidebar" -> { <<"Provide account details">> }

InFlightSends == { i \in 1..Len(uiSends) : uiSends[i].phase # "done" }

\* if (!messageText.trim() || isLoading) return;
SendAccepted(text, loading) == Trim(text) # <<>> /\ ~loading

\* A click or submit that ends in a call of sendMessage.  The input, the
\* submit button and the quick-action buttons are disabled while the page
\* shows isLoading; handleSubmit passes a non-blank input only; the
\* sidebar items call through the ref at any time.
CallSend(src) ==
    /\ src \in {"form", "quick"} => ~uiSeen
    /\ \E text \in SendTexts(src) :
         IF (src = "form" => Trim(text) # <<>>) /\ SendAccepted(text, uiSeen)
         THEN /\ Len(uiSends) < MaxSends
              /\ uiMessages' = Append(uiMessages,
                     [msg |-> [sender |-> "user", text |-> text],
                      of |-> Len(uiSends) + 1])
              /\ uiLoading' = TRUE
              /\ uiSeen' = RenderAfterEvent(TRUE, uiSeen)
              /\ uiSends' = Append(uiSends,
                     [text |-> text, src |-> src, phase |-> "delay", tries |-> 0,
                      outcome |-> NoOutcome])
              /\ uiLast' = [src |-> src, accepted |-> TRUE,
                            busy |-> InFlightSends # {}]
         ELSE /\ uiLast' = [src |-> src, accepted |-> FALSE,
                            busy |-> InFlightSends # {}]
              /\ UNCHANGED <<uiMessages, uiLoading, uiSeen, uiSends>>
    /\ UNCHANGED <<serverVars, shapeVars, pgTables, px, bl>>

\* The 300 ms delay is over: fetch is called.
StartFetch(i) ==
    /\ i \in 1..Len(uiSends)
    /\ uiSends[i].phase = "delay"
    /\ uiSends' = [uiSends EXCEPT ![i].phase = "fetching", ![i].tries = @ + 1]
    /\ UNCHANGED <<uiMessages, uiLoading, uiSeen, uiLast>>
    /\ UNCHANGED <<serverVars, shapeVars, pgTables, px, bl>>

\* fetch has settled: the rest of try, catch and finally.
Settle(i) ==
    /\ i \in 1..Len(uiSends)
    /\ uiSends[i].phase = "fetching"
    /\ \E o \in SendOutcomes :
         LET added == SettleMessages(TryBlock(o)) IN
         /\ uiMessages' = uiMessages \o
                [k \in 1..Len(added) |-> [msg |-> added[k], of |-> i]]
         /\ uiSends' = [uiSends EXCEPT ![i].phase = "done", ![i].outcome = o]
    /\ uiLoading' = FALSE
    /\ UNCHANGED <<uiSeen, uiLast>>
    /\ UNCHANGED <<serverVars, shapeVars, pgTables, px, bl>>

\* A render commits the state set outside an event handler.
Render ==
    /\ uiSeen # uiLoading
    /\ uiSeen' = uiLoading
    /\ UNCHANGED <<uiMessages, uiLoading, uiSends, uiLast>>
    /\ UNCHANGED <<serverVars, shapeVars, pgTables, px, bl>>

\* An answer of the API arrives.
ReceiveAnswer ==
    /\ shapeIn = NoOutcome
    /\ shapeIn' \in FetchOutcomes
    /\ UNCHANGED <<shapeOut, frontVars, serverVars, pgTables, px, bl>>

\* try, catch and the messages they append for that answer.
ShapeAnswer ==
    /\ shapeIn # NoOutcome
    /\ shapeOut = <<>>
    /\ shapeOut' = SettleMessages(TryBlock(shapeIn))
    /\ UNCHANGED <<shapeIn, frontVars, serverVars, pgTables, px, bl>>

FrontInit == Init /\ catalog = CatalogEmployees /\ dbUp

NextFront ==
    \/ \E src \in Sources : CallSend(src)
    \/ \E i \in 1..MaxSends : StartFetch(i)
    \/ \E i \in 1..MaxSends : Settle(i)
    \/ Render

SpecFront == FrontInit /\ [][NextFront]_vars

\* Timers fire and fetch settles.
FrontSettles ==
    /\ WF_vars(\E i \in 1..MaxSends : StartFetch(i))
    /\ WF_vars(\E i \in 1..MaxSends : Settle(i))

SpecFrontLive == SpecFront /\ FrontSettles

NextShape ==
    \/ ReceiveAnswer
    \/ ShapeAnswer

SpecShape == FrontInit /\ [][NextShape]_vars

----------------------------------------------------------------------------
(* Properties of the chat window *)

UserMessagesOf(i) ==
    { k \in 1..Len(uiMessages) :
        uiMessages[k].of = i /\ uiMessages[k].msg.sender = "user" }

BotMessagesOf(i) ==
    { k \in 1..Len(uiMessages) :
        uiMessages[k].of = i /\ uiMessages[k].msg.sender = "bot" }

\* The bot message of a finished send.
BotMessageOf(i) == uiMessages[CHOOSE k \in BotMessagesOf(i) : TRUE].msg

IsErrorMessage(m) == "isError" \in DOMAIN m /\ m.isError

SendDone(i) == i \in 1..Len(uiSends) /\ uiSends[i].phase = "done"

\* C22: before an error message is shown for a send, its request has been
\* sent at least twice.
C22_RetryBeforeError ==
    \A i \in 1..Len(uiSends) :
        (SendDone(i) /\ \E k \in BotMessagesOf(i) : IsErrorMessage(uiMessages[k].msg))
            => uiSends[i].tries >= 2

\* C23: every accepted send has its user message and, once it is over,
\* exactly one bot message after it, flagged isError exactly when the try
\* block threw; isLoading is true while the send is in progress and false
\* when none is; and every accepted send comes to its end.
C23_OneBotMessagePerSend ==
    /\ [](\A i \in 1..Len(uiSends) :
            /\ Cardinality(UserMessagesOf(i)) = 1
            /\ \A k \in UserMessagesOf(i) : uiMessages[k].msg.text = uiSends[i].text
            /\ ~SendDone(i) => (BotMessagesOf(i) = {} /\ uiLoading)
            /\ SendDone(i) =>
                  /\ Cardinality(BotMessagesOf(i)) = 1
                  /\ \A k \in BotMessagesOf(i), u \in UserMessagesOf(i) : u < k
                  /\ IsErrorMessage(BotMessageOf(i))
                        <=> TryBlock(uiSends[i].outcome).kind = "throw"
                  /\ uiSends[i].outcome.kind # "json" => IsErrorMessage(BotMessageOf(i)))
    /\ [](InFlightSends = {} => ~uiLoading)
    /\ \A i \in 1..MaxSends : (i \in InFlightSends) ~> SendDone(i)

C23_Witness ==
    /\ SendDone(1)
    /\ uiSends[1].outcome.kind = "reject"
    /\ IsErrorMessage(BotMessageOf(1))
    /\ ~uiLoading
    /\ Len(uiMessages) = 3

\* C25: at most one send is in progress; a call of sendMessage made while
\* one is in progress, from the form, a quick-action button or the sidebar,
\* is not accepted, appends no user message and starts no request.
C25_AtMostOneInFlight ==
    /\ Cardinality(InFlightSends) <= 1
    /\ uiLast.busy => ~uiLast.accepted
    /\ \A i \in 1..Len(uiSends) :
          /\ Cardinality(UserMessagesOf(i)) = 1
          /\ uiSends[i].tries <= 1
    /\ Cardinality({ k \in 1..Len(uiMessages) : uiMessages[k].msg.sender = "user" })
          = Len(uiSends)

C25_Witness ==
    /\ uiLast = [src |-> "sidebar", accepted |-> FALSE, busy |-> TRUE]
    /\ Cardinality(InFlightSends) = 1
    /\ uiSends[1].phase = "fetching"
    /\ Len(uiMessages) = 2

StartsWithError(text) ==
    Len(text) >= 2 /\ SubSeq(text, 1, 2) = <<"Error", ":">>

\* C27: the bot message of a reply with success false is plain text that
\* starts with "Error:" and carries no images, no table and no HTML content.
C27_FailureShownAsPlainText ==
    (/\ shapeOut # <<>>
     /\ shapeIn.kind = "json"
     /\ shapeIn.data.t = "object"
     /\ ~Truthy(Prop(shapeIn.data, "success"))) =>
        /\ Len(shapeOut) = 1
        /\ DOMAIN shapeOut[1] \cap {"images", "tableData", "htmlContent"} = {}
        /\ StartsWithError(shapeOut[1].text)

----------------------------------------------------------------------------
(* ChatBot.jsx: the pages of a generated table *)

\* Array.prototype.slice(start, end), with start and end counted from 0
Slice(data, start, end) ==
    SubSeq(data, start + 1, IF end < Len(data) THEN end ELSE Len(data))

\* Variant: the page starts one page further.
PageStartNextPage(page) == page * RowsPerPage

\* const start = (page - 1) * rowsPerPage
PageStart(page) == (page - 1) * RowsPerPage

\* window.changePage(tableId, page, totalPages) on the elements of the table
\* and its data in window.tableData.
changePage(tbl, page, totalPages) ==
    [tbl EXCEPT
        !.dom.body = Slice(tbl.data, PageStart(page), PageStart(page) + RowsPerPage),
        !.dom.label = <<page, totalPages>>,
        !.dom.prevDisabled = (page = 1),
        !.dom.nextDisabled = (page = totalPages),
        !.dom.prevTarget = IF page > 1 THEN page - 1 ELSE @,
        !.dom.nextTarget = IF page < totalPages THEN page + 1 ELSE @]

\* generateTableFromData on an array of n rows; the rows are numbered.
GenerateTable(t) ==
    /\ ~pgTables[t].generated
    /\ \E n \in 0..MaxTableRows :
         LET data == [i \in 1..n |-> i] IN
         pgTables' = [pgTables EXCEPT
                        ![t] = [generated |-> TRUE, data |-> data,
                                dom |-> TableDom(data, "Associates Details")]]
    /\ UNCHANGED <<serverVars, frontVars, shapeVars, px, bl>>

\* A click on the Previous button, which is there and not disabled.
ClickPrevious(t) ==
    /\ pgTables[t].generated
    /\ pgTables[t].dom.pagination
    /\ ~pgTables[t].dom.prevDisabled
    /\ pgTables' = [pgTables EXCEPT
                      ![t] = changePage(@, @.dom.prevTarget, @.dom.totalPages)]
    /\ UNCHANGED <<serverVars, frontVars, shapeVars, px, bl>>

\* A click on the Next button, which is there and not disabled.
ClickNext(t) ==
    /\ pgTables[t].generated
    /\ pgTables[t].dom.pagination
    /\ ~pgTables[t].dom.nextDisabled
    /\ pgTables' = [pgTables EXCEPT
                      ![t] = changePage(@, @.dom.nextTarget, @.dom.totalPages)]
    /\ UNCHANGED <<serverVars, frontVars, shapeVars, px, bl>>

NextPages ==
    \/ \E t \in 1..MaxTables : GenerateTable(t)
    \/ \E t \in 1..MaxTables : ClickPrevious(t)
    \/ \E t \in 1..MaxTables : ClickNext(t)

SpecPages == FrontInit /\ [][NextPages]_vars

\* The page a table shows, as its label tells.
PageShown(tbl) == tbl.dom.label[1]

Min(a, b) == IF a < b THEN a ELSE b

\* C28: a paginated table of n rows shows a page p between 1 and
\* ceil(n / 5) with exactly the rows 5(p-1)+1 to min(5p, n); Previous is
\* disabled exactly on page 1 and Next exactly on the last page; an enabled
\* button leads to the page before or after p.
C28_PageWithinBounds ==
    \A t \in 1..MaxTables :
        (pgTables[t].generated /\ Len(pgTables[t].data) > 0) =>
            LET tbl == pgTables[t]
                n == Len(tbl.data)
                pg == PageShown(tbl)
            IN /\ 1 <= pg /\ pg <= TotalPages(n)
               /\ tbl.dom.totalPages = TotalPages(n)
               /\ tbl.dom.body =
                     [k \in 1..(Min(RowsPerPage * pg, n) - RowsPerPage * (pg - 1)) |->
                        tbl.data[RowsPerPage * (pg - 1) + k]]
               /\ tbl.dom.pagination <=> n > RowsPerPage
               /\ tbl.dom.pagination =>
                     /\ tbl.dom.prevDisabled <=> pg = 1
                     /\ tbl.dom.nextDisabled <=> pg = TotalPages(n)
                     /\ ~tbl.dom.prevDisabled => tbl.dom.prevTarget = pg - 1
                     /\ ~tbl.dom.nextDisabled => tbl.dom.nextTarget = pg + 1

C28_Witness ==
    /\ pgTables[1].generated
    /\ Len(pgTables[1].data) = 11
    /\ PageShown(pgTables[1]) = 3
    /\ pgTables[1].dom.body = <<11>>
    /\ pgTables[2].generated
    /\ Len(pgTables[2].data) = 11
    /\ PageShown(pgTables[2]) = 2
    /\ pgTables[2].dom.prevTarget = 1
    /\ pgTables[2].dom.nextTarget = 3

\* ---------------------------------------------------------------------
\* The Excel services: workbooks fetched from blob storage.

\* this.dataTypes: the data types with a file path, two of them here.
dataTypes == {"account", "bench"}

\* The data types a caller passes: the known ones and one without a path.
DataTypeInputs == dataTypes \cup {"payroll"}

\* A cell the sheet does not have.
Hole == "(hole)"

\* The bodies an HTTP answer carries: a workbook with its sheets (each a
\* list of rows of cells), bytes that are no workbook, a buffer of length
\* zero, and no data at all.
Sheet(name, rows) == [name |-> name, rows |-> rows]

Book(sheets) == [kind |-> "book", sheets |-> sheets]

Garbage == [kind |-> "garbage"]

EmptyBuffer == [kind |-> "empty"]

NoData == [kind |-> "nodata"]

Books ==
    { Book(<<>>),
      Book(<<Sheet("Sheet1", <<>>)>>),
      Book(<<Sheet("Sheet1", <<<<"Name", "", "Role">>>>)>>),
      Book(<<Sheet("Sheet1", <<<<"Name", "", "Role">>,
                               <<"Asha", "x", Hole>>,
                               <<"", Hole, "">>,
                               <<"Ravi", "y", "Lead">>>>),
             Sheet("Sheet2", <<<<"Other">>>>)>>) }

\* response.data as a condition: a buffer is an object, so it is truthy
\* whatever its length.
DataTruthy(data) == data.kind # "nodata"

ByteLength(data) == IF data.kind = "empty" THEN 0 ELSE 1

\* XLSX.read: the workbook of the bytes, or an exception. What the library
\* makes of a buffer of length zero is left open.
XlsxReadOutcomes(data) ==
    CASE data.kind = "book" -> {Return(data.sheets)}
      [] data.kind = "garbage" -> {Throw(Error("Unsupported file"))}
      [] OTHER -> {Throw(Error("Unsupported file")),
                   Return(<<Sheet("Sheet1", <<>>)>>)}

\* workbook.SheetNames[0] and workbook.Sheets[worksheetName].
FirstSheetName(workbook) ==
    IF Len(workbook) = 0 THEN Undefined ELSE Str(workbook[1].name)

\* XLSX.utils.sheet_to_json(worksheet, {header: 1, defval}): the rows of the
\* sheet as arrays; with a defval the missing cells take it. No sheet gives
\* no rows.
SheetToJson(workbook, withDefval) ==
    IF Len(workbook) = 0 THEN <<>>
    ELSE LET rows == workbook[1].rows
         IN [r \in 1..Len(rows) |->
               [c \in 1..Len(rows[r]) |->
                  IF rows[r][c] = Hole /\ withDefval THEN "" ELSE rows[r][c]]]

formatCellValue(value) == IF value \in {"", Hole} THEN "-" ELSE value

\* row[colIndex]
CellAt(row, colIndex) == IF colIndex <= Len(row) THEN row[colIndex] ELSE Hole

\* The object of one data row: a field for every truthy header, the last
\* column of a repeated header winning.
RowData(headers, row) ==
    LET named == {c \in 1..Len(headers) : headers[c] \notin {"", Hole}}
        names == {headers[c] : c \in named}
        LastCol(h) == CHOOSE c \in named :
                         /\ headers[c] = h
                         /\ \A d \in named : headers[d] = h => d <= c
    IN [h \in names |-> formatCellValue(CellAt(row, LastCol(h)))]

\* The rows after the header row that have a non-empty cell, as objects.
processExcelData(rawData) ==
    IF Len(rawData) = 0 THEN <<>>
    ELSE LET headers == rawData[1]
             dataRows == Tail(rawData)
             HasCell(row) == \E c \in 1..Len(row) : row[c] \notin {"", Hole}
             kept == SelectSeq(dataRows, HasCell)
         IN [k \in 1..Len(kept) |->
               [rowIndex |-> k + 1, fields |-> RowData(headers, kept[k])]]

\* What axios.get settles with: a rejection, or a response of a 2xx status.
AxiosAnswers ==
    {Throw(Error("Network Error")),
     Throw(Error("Request failed with status code 403")),
     Return([status |-> 204, data |-> NoData]),
     Return([status |-> 203, data |-> Book(<<Sheet("Sheet1", <<<<"Name">>>>)>>)]),
     Return([status |-> 200, data |-> NoData]),
     Return([status |-> 200, data |-> Garbage]),
     Return([status |-> 200, data |-> EmptyBuffer])}
    \cup {Return([status |-> 200, data |-> b]) : b \in Books}

\* The body an answer carries, if it carries one.
DataOf(answer) == IF answer.kind = "return" THEN answer.value.data ELSE NoData

\* ---------------------------------------------------------------------
\* ExcelProxyService.fetchExcelDataWithProxy

proxyUrls == <<"cors-anywhere.herokuapp.com", "api.allorigins.win", "corsproxy.io">>

\* The result of the outer catch.
FailureResult(error, dataType) ==
    [success |-> FALSE, error |-> error.message, dataType |-> dataType]

OuterCatch(error, dataType) == Return(FailureResult(error, dataType))

\* The body of the loop for one proxy, after axios.get has settled with
\* answer and given what XLSX.read makes of its data: a result to return,
\* an error for the inner catch, or nothing, which goes on to the next
\* proxy.
TryProxy(answer, read, dataType, proxyUrl) ==
    IF answer.kind = "throw" THEN answer
    ELSE IF answer.value.status = 200 /\ DataTruthy(answer.value.data)
    THEN IF read.kind = "throw" THEN read
         ELSE LET workbook == read.value
                  processedData == processExcelData(SheetToJson(workbook, TRUE))
              IN Return([success |-> TRUE,
                         dataType |-> dataType,
                         worksheetName |-> FirstSheetName(workbook),
                         totalRows |-> Len(processedData),
                         data |-> processedData,
                         proxyUrl |-> proxyUrl,
                         isMockData |-> FALSE])
    ELSE [kind |-> "next"]

\* The loop gives up at the first proxy that fails.
ProxyAfterGiveUp(i) == Len(proxyUrls) + 1

\* The proxy the loop goes to after proxy i.
ProxyAfter(i) == i + 1

\* The call up to its first await: an unknown data type throws into the
\* outer catch, a known one has the first proxy contacted.
FetchExcelDataWithProxy(dataType) ==
    /\ px.pc = "idle"
    /\ px' = IF dataType \notin dataTypes
             THEN [pc |-> "done", dataType |-> dataType, contacted |-> <<>>,
                   answers |-> <<>>, lastError |-> Undefined,
                   result |-> OuterCatch(Error("Unknown data type"), dataType)]
             ELSE [pc |-> "await", dataType |-> dataType, contacted |-> <<1>>,
                   answers |-> <<>>, lastError |-> Undefined,
                   result |-> Undefined]
    /\ UNCHANGED <<serverVars, windowVars, bl>>

\* axios.get of the proxy contacted last settles: the rest of the loop body,
\* then the next proxy's request, or the end of the loop and the outer
\* catch.
ProxyAnswers ==
    /\ px.pc = "await"
    /\ \E answer \in AxiosAnswers :
       \E read \in XlsxReadOutcomes(DataOf(answer)) :
          LET i == px.contacted[Len(px.contacted)]
              tried == TryProxy(answer, read, px.dataType, proxyUrls[i])
              lastError == IF tried.kind = "throw" THEN tried.error
                           ELSE px.lastError
              answers == Append(px.answers, [http |-> answer, read |-> read])
              next == ProxyAfter(i)
          IN px' = IF tried.kind = "return"
                   THEN [px EXCEPT !.pc = "done", !.answers = answers,
                                   !.result = tried]
                   ELSE IF next <= Len(proxyUrls)
                   THEN [px EXCEPT !.contacted = Append(@, next),
                                   !.answers = answers,
                                   !.lastError = lastError]
                   ELSE [px EXCEPT
                           !.pc = "done", !.answers = answers,
                           !.lastError = lastError,
                           !.result =
                              OuterCatch(IF lastError = Undefined
                                         THEN Error("All proxy services failed")
                                         ELSE lastError,
                                         px.dataType)]
    /\ UNCHANGED <<serverVars, windowVars, bl>>

NextProxy ==
    \/ \E dataType \in DataTypeInputs : FetchExcelDataWithProxy(dataType)
    \/ ProxyAnswers

SpecProxy == Init /\ [][NextProxy]_vars

\* A proxy's answer yields a parsed workbook: a response of status 200 with
\* data of which XLSX.read makes a workbook.
YieldsWorkbook(a) ==
    /\ a.http.kind = "return"
    /\ a.http.value.status = 200
    /\ DataTruthy(a.http.value.data)
    /\ a.read.kind = "return"

\* C29: the proxies are contacted one at a time in their listed order; the
\* call returns success true from the first proxy whose answer yields a
\* parsed workbook, with no later proxy contacted; it returns success false
\* with an error message only after all three proxies have been tried, or,
\* for an unknown data type, without contacting any proxy; it never rejects.
C29_ProxiesInOrder ==
    px.pc # "idle" =>
        LET n == Len(px.contacted)
            m == Len(px.answers)
        IN /\ n <= Len(proxyUrls)
           /\ \A k \in 1..n : px.contacted[k] = k
           /\ \A k \in 1..m : k < m => ~YieldsWorkbook(px.answers[k])
           /\ px.pc = "await" => (m = n - 1 /\ px.dataType \in dataTypes)
           /\ px.pc = "done" =>
                /\ m = n
                /\ px.result.kind = "return"
                /\ px.result.value.success =>
                      /\ px.dataType \in dataTypes
                      /\ n >= 1
                      /\ YieldsWorkbook(px.answers[n])
                      /\ px.result.value.proxyUrl = proxyUrls[n]
                /\ ~px.result.value.success =>
                      /\ px.result.value.error # ""
                      /\ IF px.dataType \in dataTypes
                         THEN /\ n = Len(proxyUrls)
                              /\ \A k \in 1..n : ~YieldsWorkbook(px.answers[k])
                         ELSE n = 0

\* The second proxy answers with a workbook after the first has failed,
\* and the third is never contacted.
C29_Witness ==
    /\ px.pc = "done"
    /\ px.contacted = <<1, 2>>
    /\ px.answers[1].http.kind = "throw"
    /\ px.result.value.success
    /\ px.result.value.totalRows = 2
    /\ px.result.value.proxyUrl = proxyUrls[2]

\* ---------------------------------------------------------------------
\* ExcelBlobService.fetchExcelData

\* A body whose arrayBuffer() rejects.
Unreadable == [kind |-> "unreadable"]

\* What fetch in cors mode settles with: a rejection, or a response with
\* its ok flag, status and body.
CorsAnswers ==
    {Throw(Error("Failed to fetch")),
     Return([ok |-> FALSE, status |-> 404, data |-> NoData]),
     Return([ok |-> TRUE, status |-> 206,
             data |-> Book(<<Sheet("Sheet1", <<<<"Name">>>>)>>)]),
     Return([ok |-> TRUE, status |-> 200, data |-> Unreadable]),
     Return([ok |-> TRUE, status |-> 200, data |-> Garbage]),
     Return([ok |-> TRUE, status |-> 200, data |-> EmptyBuffer])}
    \cup {Return([ok |-> TRUE, status |-> 200, data |-> b]) : b \in Books}

\* What fetch in no-cors mode settles with: a rejection or an opaque
\* response.
NoCorsAnswers ==
    {Throw(Error("Failed to fetch")),
     Return([ok |-> FALSE, status |-> 0, data |-> NoData])}

\* getMockAccountData(): the demo rows, marked as mock data.
getMockAccountData ==
    [success |-> TRUE,
     dataType |-> "account",
     worksheetName |-> Str("Platform, App & Infra"),
     totalRows |-> 4,
     data |-> <<"EMP001", "EMP002", "EMP003", "EMP004">>,
     isMockData |-> TRUE]

\* The outer catch falls back to the demo rows.
BlobOuterCatchMock(error, dataType) == Return(getMockAccountData)

\* The outer catch: a result with the error's message, no mock data.
BlobOuterCatch(error, dataType) == Return(FailureResult(error, dataType))

\* One approach of the fetch loop after fetch has settled with answer: a
\* response to go on with, or an error for the inner catch.
TryFetch(mode, answer) ==
    IF answer.kind = "throw" THEN answer
    ELSE IF mode = "no-cors"
    THEN Throw(Error("No-cors mode cannot read response data"))
    ELSE IF answer.value.ok
    THEN IF answer.value.data = Unreadable
         THEN Throw(Error("Failed to read body"))
         ELSE Return([status |-> answer.value.status,
                      data |-> answer.value.data])
    ELSE Throw(Error("HTTP status"))

\* The checks on the response and the parsing, given what XLSX.read makes
\* of the data: the result, or the error for the outer catch.
ParseResponse(response, read, dataType) ==
    IF response.status # 200
    THEN Throw(Error("Failed to fetch file: HTTP status"))
    ELSE IF ~DataTruthy(response.data) \/ ByteLength(response.data) = 0
    THEN Throw(Error("Response data is empty or invalid"))
    ELSE IF read.kind = "throw"
    THEN Throw(Error("Failed to parse Excel file"))
    ELSE IF Len(read.value) = 0
    THEN Throw(Error("Excel file contains no worksheets"))
    ELSE LET jsonData == SheetToJson(read.value, FALSE)
         IN IF Len(jsonData) = 0
            THEN Throw(Error("Worksheet contains no data"))
            ELSE LET processedData == processExcelData(jsonData)
                 IN Return([success |-> TRUE,
                            dataType |-> dataType,
                            worksheetName |-> FirstSheetName(read.value),
                            totalRows |-> Len(processedData),
                            data |-> processedData])

\* The function from the response on: the result of the try block, or what
\* the outer catch makes of its error.
FinishFetch(response, read, dataType) ==
    LET parsed == ParseResponse(response, read, dataType)
    IN IF parsed.kind = "throw" THEN BlobOuterCatch(parsed.error, dataType)
       ELSE parsed

\* The call up to its first await: an unknown data type throws into the
\* outer catch, a known one starts the cors fetch.
FetchExcelData(dataType) ==
    /\ bl.pc = "idle"
    /\ bl' = IF dataType \notin dataTypes
             THEN [pc |-> "done", dataType |-> dataType, attempts |-> <<>>,
                   answers |-> <<>>,
                   result |-> BlobOuterCatch(Error("Unknown data type"), dataType)]
             ELSE [pc |-> "cors", dataType |-> dataType,
                   attempts |-> <<"cors">>, answers |-> <<>>,
                   result |-> Undefined]
    /\ UNCHANGED <<serverVars, windowVars, px>>

\* The cors fetch settles: with a response the loop is left and the
\* response is checked and parsed, otherwise the no-cors fetch starts.
CorsSettles ==
    /\ bl.pc = "cors"
    /\ \E answer \in CorsAnswers :
       \E read \in XlsxReadOutcomes(DataOf(answer)) :
          LET tried == TryFetch("cors", answer)
              answers == Append(bl.answers, [http |-> answer, read |-> read])
          IN bl' = IF tried.kind = "return"
                   THEN [bl EXCEPT !.pc = "done", !.answers = answers,
                                   !.result = FinishFetch(tried.value, read,
                                                          bl.dataType)]
                   ELSE [bl EXCEPT !.pc = "no-cors", !.answers = answers,
                                   !.attempts = Append(@, "no-cors")]
    /\ UNCHANGED <<serverVars, windowVars, px>>

\* The no-cors fetch settles: it gives no response either way, and with
\* no response axios is called.
NoCorsSettles ==
    /\ bl.pc = "no-cors"
    /\ \E answer \in NoCorsAnswers :
          LET tried == TryFetch("no-cors", answer)
              answers == Append(bl.answers,
                                [http |-> answer,
                                 read |-> Throw(Error("Unsupported file"))])
          IN bl' = IF tried.kind = "return"
                   THEN [bl EXCEPT !.pc = "done", !.answers = answers,
                                   !.result = FinishFetch(tried.value,
                                                          answers[Len(answers)].read,
                                                          bl.dataType)]
                   ELSE [bl EXCEPT !.pc = "axios", !.answers = answers,
                                   !.attempts = Append(@, "axios")]
    /\ UNCHANGED <<serverVars, windowVars, px>>

\* axios.get settles: a rejection goes to the outer catch, a response is
\* checked and parsed.
AxiosSettles ==
    /\ bl.pc = "axios"
    /\ \E answer \in AxiosAnswers :
       \E read \in XlsxReadOutcomes(DataOf(answer)) :
          LET answers == Append(bl.answers, [http |-> answer, read |-> read])
          IN bl' = [bl EXCEPT
                      !.pc = "done", !.answers = answers,
                      !.result = IF answer.kind = "throw"
                                 THEN BlobOuterCatch(answer.error, bl.dataType)
                                 ELSE FinishFetch(answer.value, read,
                                                  bl.dataType)]
    /\ UNCHANGED <<serverVars, windowVars, px>>

NextBlob ==
    \/ \E dataType \in DataTypeInputs : FetchExcelData(dataType)
    \/ CorsSettles
    \/ NoCorsSettles
    \/ AxiosSettles

SpecBlob == Init /\ [][NextBlob]_vars

\* The order of the attempts.
AttemptOrder == <<"cors", "no-cors", "axios">>

\* An attempt delivered a body: its request resolved, with an ok status
\* where fetch tells one, and the body could be read. A no-cors fetch
\* resolves with an opaque response and delivers nothing.
Delivered(mode, a) ==
    /\ mode # "no-cors"
    /\ a.http.kind = "return"
    /\ mode = "cors" => a.http.value.ok
    /\ a.http.value.data # Unreadable

\* An attempt delivered status 200 with a non-empty body that parses to a
\* sheet with at least one row.
DeliveredSheet(mode, a) ==
    /\ Delivered(mode, a)
    /\ a.http.value.status = 200
    /\ DataTruthy(a.http.value.data)
    /\ ByteLength(a.http.value.data) > 0
    /\ a.read.kind = "return"
    /\ Len(a.read.value) >= 1
    /\ Len(a.read.value[1].rows) >= 1

\* C30: the attempts are made in the order cors fetch, no-cors fetch,
\* axios, a later one only when every earlier one failed; the call returns
\* success true only when some attempt delivered status 200 with a
\* non-empty body that parses to a sheet with at least one row, and success
\* false with the error message in every other case; it never returns mock
\* data and never rejects.
C30_RealDataOrError ==
    bl.pc # "idle" =>
        LET n == Len(bl.attempts)
            m == Len(bl.answers)
        IN /\ n <= Len(AttemptOrder)
           /\ \A k \in 1..n : bl.attempts[k] = AttemptOrder[k]
           /\ \A k \in 1..m : k < n => ~Delivered(bl.attempts[k], bl.answers[k])
           /\ bl.pc # "done" => m = n - 1
           /\ bl.pc = "done" =>
                /\ m = n
                /\ bl.result.kind = "return"
                /\ bl.result.value # getMockAccountData
                /\ "isMockData" \notin DOMAIN bl.result.value
                /\ bl.result.value.success <=>
                      \E k \in 1..m : DeliveredSheet(bl.attempts[k], bl.answers[k])
                /\ ~bl.result.value.success => bl.result.value.error # ""

\* Both fetches fail and axios delivers a workbook of two data rows.
C30_Witness ==
    /\ bl.pc = "done"
    /\ bl.attempts = AttemptOrder
    /\ bl.result.value.success
    /\ bl.result.value.totalRows = 2

====
